---------------------------- MODULE Spec2Model ----------------------------
(***************************************************************************)
(* A model of gobusybox: the dispatch stub (bbmain/cmd/main.go: init,      *)
(* main, run, ResolveUntilLastSymlink) and the builder (bb.go:             *)
(* BuildBusybox, checkDuplicate, localModules, dealWithDeps).              *)
(*                                                                         *)
(* Strings are sequences of one-character strings, so that prefix tests,   *)
(* basenames and path cleaning are computed as the Go library computes     *)
(* them.                                                                   *)
(***************************************************************************)
EXTENDS Integers, Sequences, FiniteSets, TLC

(***************************************************************************)
(* Bounds of the model.                                                    *)
(***************************************************************************)
\* The longest argv the stub is started with.
MaxArgs == 4

\* The number of commands the package finder returns at most.
MaxCmds == 2

\* The number of top-level declarations of a program at most.
MaxDecls == 4

(***************************************************************************)
(* Strings of the Go library: strings.HasPrefix, path/filepath.            *)
(***************************************************************************)
HasPrefix(s, prefix) ==
    /\ Len(s) >= Len(prefix)
    /\ SubSeq(s, 1, Len(prefix)) = prefix

\* The index of the last "/" of s, 0 when it has none.
LastSlash(s) ==
    LET idx == {i \in 1..Len(s) : s[i] = "/"}
    IN  IF idx = {} THEN 0 ELSE CHOOSE i \in idx : \A j \in idx : j <= i

\* The index of the first "/" of s, 0 when it has none.
FirstSlash(s) ==
    LET idx == {i \in 1..Len(s) : s[i] = "/"}
    IN  IF idx = {} THEN 0 ELSE CHOOSE i \in idx : \A j \in idx : i <= j

\* strings.Split(s, "/"): the pieces between the slashes, empty ones kept.
RECURSIVE SplitSlash(_)
SplitSlash(s) ==
    LET i == FirstSlash(s)
    IN  IF i = 0 THEN <<s>>
        ELSE <<SubSeq(s, 1, i - 1)>> \o SplitSlash(SubSeq(s, i + 1, Len(s)))

\* strings.Join(elems, "/").
RECURSIVE JoinSlash(_)
JoinSlash(elems) ==
    IF elems = <<>> THEN <<>>
    ELSE IF Len(elems) = 1 THEN elems[1]
    ELSE elems[1] \o <<"/">> \o JoinSlash(Tail(elems))

\* The element stack filepath.Clean keeps while it reads the path's elements:
\* "" and "." are skipped, ".." removes the last element, stays at the root
\* of a rooted path, and is kept at the front of a relative one.
RECURSIVE CleanElems(_, _, _)
CleanElems(elems, out, rooted) ==
    IF elems = <<>> THEN out
    ELSE LET e == Head(elems)
             rest == Tail(elems)
         IN  IF e = <<>> \/ e = <<".">> THEN CleanElems(rest, out, rooted)
             ELSE IF e = <<".", ".">>
             THEN IF out # <<>> /\ out[Len(out)] # <<".", ".">>
                  THEN CleanElems(rest, SubSeq(out, 1, Len(out) - 1), rooted)
                  ELSE IF rooted THEN CleanElems(rest, out, rooted)
                  ELSE CleanElems(rest, Append(out, e), rooted)
             ELSE CleanElems(rest, Append(out, e), rooted)

\* filepath.Clean.
Clean(s) ==
    IF s = <<>> THEN <<".">>
    ELSE LET rooted == s[1] = "/"
             out == JoinSlash(CleanElems(SplitSlash(s), <<>>, rooted))
         IN  IF rooted THEN <<"/">> \o out
             ELSE IF out = <<>> THEN <<".">> ELSE out

\* filepath.IsAbs on Unix.
IsAbs(s) == HasPrefix(s, <<"/">>)

\* filepath.Dir: Clean of everything up to and including the last slash.
Dir(s) == Clean(SubSeq(s, 1, LastSlash(s)))

\* s without its trailing slashes.
RECURSIVE StripTrailingSlashes(_)
StripTrailingSlashes(s) ==
    IF s # <<>> /\ s[Len(s)] = "/"
    THEN StripTrailingSlashes(SubSeq(s, 1, Len(s) - 1))
    ELSE s

\* filepath.Base.
Base(s) ==
    IF s = <<>> THEN <<".">>
    ELSE LET t == StripTrailingSlashes(s)
             u == SubSeq(t, LastSlash(t) + 1, Len(t))
         IN  IF u = <<>> THEN <<"/">> ELSE u

\* filepath.Join(a, b): the empty leading elements are dropped, the rest is
\* joined with "/" and cleaned.
Join(a, b) ==
    IF a = <<>> /\ b = <<>> THEN <<>>
    ELSE IF a = <<>> THEN Clean(b)
    ELSE Clean(a \o <<"/">> \o b)

(***************************************************************************)
(* The file system the stub runs in.  Directories are real directories     *)
(* (no directory of the universe is itself a symbolic link); three names   *)
(* may each be absent, a regular file or a symbolic link.                  *)
(***************************************************************************)
\* File-system nodes are sequences of names from the root.
FileName ==
    [bbin |-> <<"b", "b", "i", "n">>, bin |-> <<"b", "i", "n">>,
     tmp |-> <<"t", "m", "p">>, bb |-> <<"b", "b">>, ls |-> <<"l", "s">>,
     sh |-> <<"s", "h">>]

Dirs == {<<>>, <<FileName.bbin>>, <<FileName.bin>>, <<FileName.tmp>>}

FixedFiles == {<<FileName.bbin, FileName.bb>>, <<FileName.tmp, FileName.ls>>}

Slots == {<<FileName.bbin, FileName.ls>>, <<FileName.bbin, FileName.sh>>, <<FileName.bin, FileName.sh>>}

\* The working directory of the process.
Cwd == <<FileName.bbin>>

\* Path strings.
Str ==
    [bbinBb |-> <<"/", "b", "b", "i", "n", "/", "b", "b">>,
     bbinLs |-> <<"/", "b", "b", "i", "n", "/", "l", "s">>,
     bbinSh |-> <<"/", "b", "b", "i", "n", "/", "s", "h">>,
     binSh |-> <<"/", "b", "i", "n", "/", "s", "h">>,
     tmpLs |-> <<"/", "t", "m", "p", "/", "l", "s">>,
     ls |-> <<"l", "s">>,
     sh |-> <<"s", "h">>,
     bb |-> <<"b", "b">>,
     upBinSh |-> <<".", ".", "/", "b", "i", "n", "/", "s", "h">>,
     upBbinLs |-> <<".", ".", "/", "b", "b", "i", "n", "/", "l", "s">>,
     shebangLs |-> <<"#", "!", "l", "s">>,
     dashLa |-> <<"-", "l", "a">>,
     bbdiagnose |-> <<"b", "b", "d", "i", "a", "g", "n", "o", "s", "e">>,
     cwd |-> <<"/", "b", "b", "i", "n">>]

\* What a symbolic link of the universe may hold.
Targets == {Str.bb, Str.ls, Str.sh, Str.upBinSh, Str.upBbinLs, Str.bbinSh}

SlotContents ==
    {[k |-> "none"], [k |-> "file"]} \cup {[k |-> "link", t |-> t] : t \in Targets}

AllFS == [Slots -> SlotContents]

\* The file systems the whole stub is run in: /bbin/ls is the usual busybox
\* link to bb, and /bin/sh is absent or a link to that link.
StubFS ==
    {f \in AllFS :
        /\ f[<<FileName.bbin, FileName.ls>>] = [k |-> "link", t |-> Str.bb]
        /\ f[<<FileName.bbin, FileName.sh>>].k = "none"
        /\ f[<<FileName.bin, FileName.sh>>] \in {[k |-> "none"], [k |-> "link", t |-> Str.upBbinLs]}}

\* What argv holds when the whole stub is run.
ArgStrings == {Str.bbinBb, Str.shebangLs, Str.tmpLs, Str.dashLa, Str.ls, Str.binSh}

\* The argv[0] the symlink resolution is run on, in any file system.
ResolvePaths == {Str.binSh, Str.bbinLs, Str.bbinSh, Str.ls, Str.sh, Str.bbinBb}

VARIABLES
    fs,         \* the symbolic links of the file system
    args,       \* os.Args
    pc,         \* where the stub is: start, main, resolve, run, ran, fatal
    p,          \* the p of ResolveUntilLastSymlink
    args0,      \* os.Args as the process was started
    argsInit,   \* os.Args when init() returned
    argsMain,   \* os.Args when main() first called run()
    ranName,    \* the name bbmain.Run found registered and ran
    shifts      \* how often the default entry has shifted os.Args

svars == <<fs, args, pc, p, args0, argsInit, argsMain, ranName, shifts>>

VARIABLES
    bpc,          \* where BuildBusybox is
    opts,         \* the Opts of the call
    genDisk,      \* the directory opts.GenSrcDir names, on disk
    tmpDisk,      \* the directory ioutil.TempDir made, on disk
    tmpDir,       \* tmpDir: "" (not set), "gen" (opts.GenSrcDir) or "tmp"
    deferSet,     \* the deferred function of BuildBusybox is installed
    treeDirs,     \* the directories made under tmpDir
    treeFiles,    \* the files written under tmpDir
    log,          \* what log.Printf has printed
    nerr,         \* the error BuildBusybox returned
    finderCalled, \* findpkg.NewPackages has been called
    cmds,         \* the commands findpkg.NewPackages returned
    idx,          \* the index of the loop that is running
    bbImports,    \* bbImports
    localMods,    \* the localModules map of localModules
    goSum,        \* the go.mod files whose go.sum was appended to bb's go.sum
    goMod,        \* the go.mod written for the bb binary
    compiles      \* how often the compiler has been run

bvars == <<bpc, opts, genDisk, tmpDisk, tmpDir, deferSet, treeDirs, treeFiles, log,
           nerr, finderCalled, cmds, idx, bbImports, localMods, goSum, goMod,
           compiles>>

\* A command's program as cmd.Rewrite turns it into a package, and as the
\* dispatch entry of the package runs.
VARIABLES
    rpc,        \* where this is: off, source, rewritten, chained, ran
    prog,       \* the top-level declarations of the program, in file and source order
    rewritten,  \* the package cmd.Rewrite makes of it
    effects     \* the effects of invoking the dispatch entry, in order

rvars == <<rpc, prog, rewritten, effects>>

vars == <<svars, bvars, rvars>>

\* A nil pointer, a nil error.
Nil == [nil |-> TRUE]

(***************************************************************************)
(* The kernel's view of a path: os.Lstat and os.Readlink.                  *)
(***************************************************************************)
\* No node: the walk failed (ENOENT, ENOTDIR).
NoNode == <<<<"?">>>>

\* The kernel's walk of the elements of a path from a node: every node it
\* passes through must be a directory; the last element is not followed.
RECURSIVE WalkFrom(_, _)
WalkFrom(node, elems) ==
    IF elems = <<>> THEN node
    ELSE IF node \notin Dirs THEN NoNode
    ELSE LET e == Head(elems)
         IN  IF e = <<>> \/ e = <<".">> THEN WalkFrom(node, Tail(elems))
             ELSE IF e = <<".", ".">>
             THEN WalkFrom(IF node = <<>> THEN node
                           ELSE SubSeq(node, 1, Len(node) - 1), Tail(elems))
             ELSE WalkFrom(Append(node, e), Tail(elems))

Walk(path) ==
    IF path = <<>> THEN NoNode
    ELSE WalkFrom(IF IsAbs(path) THEN <<>> ELSE Cwd, SplitSlash(path))

NodeKind(node) ==
    IF node \in Dirs THEN "dir"
    ELSE IF node \in FixedFiles THEN "file"
    ELSE IF node \in Slots THEN fs[node].k
    ELSE "none"

\* os.Lstat(path): the kind of the file, "none" for an error.
Lstat(path) == NodeKind(Walk(path))

\* os.Readlink(path) returns no error.
ReadlinkOk(path) == Lstat(path) = "link"

\* os.Readlink(path), when it returns no error.
Readlink(path) == fs[Walk(path)].t

(***************************************************************************)
(* The dispatch stub.                                                      *)
(***************************************************************************)
\* filepath.Abs of a path that is not absolute.
Abs(path) == Join(Str.cwd, path)

\* AbsSymlink resolving a relative target against the working directory.
AbsSymlink_FromCwd(originalFile, target) ==
    IF ~IsAbs(target) THEN Join(Str.cwd, target) ELSE target

AbsSymlink(originalFile, target) ==
    LET orig == IF ~IsAbs(originalFile) THEN Abs(originalFile) ELSE originalFile
    IN  IF ~IsAbs(target) THEN Join(Dir(orig), target) ELSE target

IsTargetSymlink(originalFile, target) ==
    Lstat(AbsSymlink(originalFile, target)) = "link"

\* The condition of the loop of ResolveUntilLastSymlink.
ResolveLoops(path) ==
    /\ ReadlinkOk(path)
    /\ IsTargetSymlink(path, Readlink(path))

\* The rewrite dropping one entry only.
ShebangRewrite_DropOne(a) ==
    IF Len(a) > 2 /\ HasPrefix(a[2], <<"#", "!">>)
    THEN SubSeq(a, 2, Len(a))
    ELSE a

\* init(): run from a #! file, os.Args is rebuilt.
ShebangRewrite(a) ==
    IF Len(a) > 2 /\ HasPrefix(a[2], <<"#", "!">>)
    THEN SubSeq(a, 3, Len(a))
    ELSE a

\* The commands of the busybox, each registered by its package's init().
RegisteredCmds == {Str.ls}

\* The names bbmain.Run finds: the commands, and bbdiagnose, which init()
\* registers.
Registered == RegisteredCmds \cup {Str.bbdiagnose}

\* bbmain.Run(name): the entry registered under the name, else the default.
RunLookup(name) == IF name \in Registered THEN "entry" ELSE "default"

\* The default entry dropping the name it shifts to as well.
DefaultShift_Two(a) == SubSeq(a, 3, Len(a))

\* The default entry m of init(): argv[1] becomes the name.
DefaultShift(a) == Tail(a)

StubInit ==
    /\ pc = "start"
    /\ args' = ShebangRewrite(args)
    /\ argsInit' = args'
    /\ pc' = "main"
    /\ UNCHANGED <<fs, p, args0, argsMain, ranName, shifts, bvars, rvars>>

\* main() resolving the argv[0] the process was started with.
MainStart_OriginalArgv ==
    /\ pc = "main"
    /\ p' = args0[1]
    /\ pc' = "resolve"
    /\ UNCHANGED <<fs, args, args0, argsInit, argsMain, ranName, shifts, bvars, rvars>>

\* main(): ResolveUntilLastSymlink is called with os.Args[0].
MainStart ==
    /\ pc = "main"
    /\ p' = args[1]
    /\ pc' = "resolve"
    /\ UNCHANGED <<fs, args, args0, argsInit, argsMain, ranName, shifts, bvars, rvars>>

ResolveIter ==
    /\ pc = "resolve"
    /\ ResolveLoops(p)
    /\ p' = AbsSymlink(p, Readlink(p))
    /\ UNCHANGED <<fs, args, pc, args0, argsInit, argsMain, ranName, shifts, bvars, rvars>>

ResolveReturn ==
    /\ pc = "resolve"
    /\ ~ResolveLoops(p)
    /\ args' = [args EXCEPT ![1] = p]
    /\ argsMain' = args'
    /\ pc' = "run"
    /\ UNCHANGED <<fs, p, args0, argsInit, ranName, shifts, bvars, rvars>>

RunEntry ==
    /\ pc = "run"
    /\ RunLookup(Base(args[1])) = "entry"
    /\ ranName' = Base(args[1])
    /\ pc' = "ran"
    /\ UNCHANGED <<fs, args, p, args0, argsInit, argsMain, shifts, bvars, rvars>>

RunDefaultFatal ==
    /\ pc = "run"
    /\ RunLookup(Base(args[1])) = "default"
    /\ Len(args) = 1
    /\ pc' = "fatal"
    /\ UNCHANGED <<fs, args, p, args0, argsInit, argsMain, ranName, shifts, bvars, rvars>>

\* The default entry without its test of len(os.Args).
RunDefaultShift_Unguarded ==
    /\ pc = "run"
    /\ RunLookup(Base(args[1])) = "default"
    /\ args' = DefaultShift(args)
    /\ shifts' = shifts + 1
    /\ UNCHANGED <<fs, pc, p, args0, argsInit, argsMain, ranName, bvars, rvars>>

\* The default entry m of init() with more than one entry in os.Args: it
\* shifts os.Args and calls run().
RunDefaultShift ==
    /\ pc = "run"
    /\ RunLookup(Base(args[1])) = "default"
    /\ Len(args) # 1
    /\ args' = DefaultShift(args)
    /\ shifts' = shifts + 1
    /\ UNCHANGED <<fs, pc, p, args0, argsInit, argsMain, ranName, bvars, rvars>>

StubNext ==
    \/ StubInit
    \/ MainStart
    \/ ResolveIter
    \/ ResolveReturn
    \/ RunEntry
    \/ RunDefaultFatal
    \/ RunDefaultShift

NoName == <<>>

StubIdle ==
    /\ p = <<>>
    /\ argsInit = <<>>
    /\ argsMain = <<>>
    /\ ranName = NoName
    /\ shifts = 0

\* No build is running.
BuildIdle ==
    /\ bpc = "off"
    /\ opts = Nil
    /\ genDisk = "absent"
    /\ tmpDisk = "absent"
    /\ tmpDir = ""
    /\ deferSet = FALSE
    /\ treeDirs = {}
    /\ treeFiles = {}
    /\ log = <<>>
    /\ nerr = Nil
    /\ finderCalled = FALSE
    /\ cmds = <<>>
    /\ idx = 0
    /\ bbImports = <<>>
    /\ localMods = <<>>
    /\ goSum = <<>>
    /\ goMod = Nil
    /\ compiles = 0

\* No program is being rewritten.
RewriteIdle ==
    /\ rpc = "off"
    /\ prog = <<>>
    /\ rewritten = Nil
    /\ effects = <<>>

\* The whole stub, started with any argv in a file system of StubFS.
Init ==
    /\ fs \in StubFS
    /\ args \in UNION {[1..n -> ArgStrings] : n \in 1..MaxArgs}
    /\ args0 = args
    /\ pc = "start"
    /\ StubIdle
    /\ BuildIdle
    /\ RewriteIdle

Spec == Init /\ [][StubNext]_vars

\* The stub started as a path, alone or with one argument, in any file system.
ResolveInit ==
    /\ fs \in AllFS
    /\ args \in {<<q>> : q \in ResolvePaths} \cup {<<q, Str.dashLa>> : q \in ResolvePaths}
    /\ args0 = args
    /\ pc = "start"
    /\ StubIdle
    /\ BuildIdle
    /\ RewriteIdle

ResolveSpec == ResolveInit /\ [][StubNext]_vars

(***************************************************************************)
(* The builder: commands, packages and modules as the package loader       *)
(* reports them.                                                           *)
(***************************************************************************)
\* packages.Module.
Module(path, version, dir, replace) ==
    [Path |-> path, Version |-> version, Dir |-> dir,
     GoMod |-> dir \o "/go.mod", Replace |-> replace]

\* The Replace of a module that a replace directive replaces.
Replacement(path, version, dir) == Module(path, version, dir, Nil)

\* Module paths.
ModulePath ==
    [m1 |-> <<"m", "1">>, m2 |-> <<"m", "2">>, m3 |-> <<"m", "3">>,
     m4 |-> <<"m", "4">>, r |-> <<"r">>, q |-> <<"q">>,
     m5 |-> <<"m", "5", "/", "v", "2">>, m5x |-> <<"m", "5", "/", "v", "2", "x">>]

\* The right-hand sides of replace directives.
ReplacePath ==
    [upM2 |-> <<".", ".", "/", "m", "2">>,
     vendM2 |-> <<".", "/", "v", "e", "n", "d", "/", "m", "2">>,
     vendR |-> <<".", "/", "v", "e", "n", "d", "/", "r">>,
     forkM2 |-> <<"f", ".", "x", "/", "m", "2">>,
     forkQ |-> <<"f", ".", "x", "/", "q">>]

\* The modules the package loader reports.  m1 to m4 are the main modules of
\* commands, m2Alt another checkout of m2.  m2FromM1 is m2 as the packages
\* of m1 see it (replace m2 => ../m2); m2FromM3 and rFromM3 are m2 and r as
\* the packages of m3 see them (replace m2 => ./vend/m2 and replace
\* r => ./vend/r); m2FromM4 is m2 as the packages of m4 see it (replace
\* m2 => f.x/m2 v1.1.0, downloaded).  m5 is the main module m5/v2 of a
\* command, m5x the module m5/v2x it requires, downloaded.
Modules ==
    [m1 |-> Module(ModulePath.m1, "", "/src/m1", Nil),
     m2 |-> Module(ModulePath.m2, "", "/src/m2", Nil),
     m3 |-> Module(ModulePath.m3, "", "/src/m3", Nil),
     m4 |-> Module(ModulePath.m4, "", "/src/m4", Nil),
     m5 |-> Module(ModulePath.m5, "", "/src/m5", Nil),
     m5x |-> Module(ModulePath.m5x, "v1.0.0", "/cache/m5/v2x@v1.0.0", Nil),
     m2Alt |-> Module(ModulePath.m2, "", "/alt/m2", Nil),
     m2FromM1 |-> Module(ModulePath.m2, "v1.0.0", "/src/m2",
                         Replacement(ReplacePath.upM2, "", "/src/m2")),
     m2FromM3 |-> Module(ModulePath.m2, "v1.0.0", "/src/m3/vend/m2",
                         Replacement(ReplacePath.vendM2, "", "/src/m3/vend/m2")),
     rFromM3 |-> Module(ModulePath.r, "v0.1.0", "/src/m3/vend/r",
                        Replacement(ReplacePath.vendR, "", "/src/m3/vend/r")),
     m2FromM4 |-> Module(ModulePath.m2, "v1.0.0", "/cache/f.x/m2@v1.1.0",
                         Replacement(ReplacePath.forkM2, "v1.1.0",
                                     "/cache/f.x/m2@v1.1.0"))]

\* A replace directive of a go.mod file.
ReplaceDirective(oldPath, oldVers, newPath, newVers) ==
    [Old |-> [Path |-> oldPath, Version |-> oldVers],
     New |-> [Path |-> newPath, Version |-> newVers]]

\* modfile.Parse(module.GoMod).Replace: the replace directives of the go.mod
\* files on disk.
GoModReplace(gomod) ==
    CASE gomod = "/src/m1/go.mod" ->
            <<ReplaceDirective(ModulePath.m2, "", ReplacePath.upM2, "")>>
      [] gomod = "/src/m3/go.mod" ->
            <<ReplaceDirective(ModulePath.m2, "", ReplacePath.vendM2, ""),
              ReplaceDirective(ModulePath.r, "", ReplacePath.vendR, ""),
              ReplaceDirective(ModulePath.q, "v1.0.0", ReplacePath.forkQ, "v1.2.0")>>
      [] gomod = "/src/m4/go.mod" ->
            <<ReplaceDirective(ModulePath.m2, "", ReplacePath.forkM2, "v1.1.0"),
              ReplaceDirective(ModulePath.q, "v1.0.0", ReplacePath.forkQ, "v1.3.0")>>
      [] OTHER -> <<>>

\* The go.mod files beside which there is a go.sum.
HasGoSum(gomod) ==
    gomod \in {"/src/m1/go.mod", "/src/m3/go.mod", "/src/m4/go.mod",
               "/src/m3/vend/m2/go.mod", "/src/m3/vend/r/go.mod"}

\* packages.Package.
Package(pkgPath, module) == [ID |-> pkgPath, PkgPath |-> pkgPath, Module |-> module]

\* bbinternal.Package: a command, with the packages packages.Visit visits
\* from it in the order it calls post, the command's own package last.
Command(name, pkg, imports) == [Name |-> name, Pkg |-> pkg, Graph |-> imports \o <<pkg>>]

\* The commands the package finder may return: ls of m1, which imports m1/x
\* and m2/y, m2 being replaced by ../m2; cat of m2, which imports m2/y; ls
\* of m2; sh of m3, which imports m2/y and r/z, both replaced by vendored
\* copies; true of m4, which imports m2/y, m2 being replaced by a fork; false
\* of m4, which imports nothing; tac of another checkout of m2; yes of
\* m5/v2, which imports m5/v2x/z; echo, a command of GOPATH that is in no
\* module.
Commands ==
    [ls1 |-> Command("ls", Package(<<"m", "1", "/", "l", "s">>, Modules.m1),
                     <<Package(<<"m", "1", "/", "x">>, Modules.m1),
                       Package(<<"m", "2", "/", "y">>, Modules.m2FromM1)>>),
     cat2 |-> Command("cat", Package(<<"m", "2", "/", "c", "a", "t">>, Modules.m2),
                      <<Package(<<"m", "2", "/", "y">>, Modules.m2)>>),
     ls2 |-> Command("ls", Package(<<"m", "2", "/", "l", "s">>, Modules.m2), <<>>),
     sh3 |-> Command("sh", Package(<<"m", "3", "/", "s", "h">>, Modules.m3),
                     <<Package(<<"m", "2", "/", "y">>, Modules.m2FromM3),
                       Package(<<"r", "/", "z">>, Modules.rFromM3)>>),
     true4 |-> Command("true", Package(<<"m", "4", "/", "t", "r", "u", "e">>, Modules.m4),
                       <<Package(<<"m", "2", "/", "y">>, Modules.m2FromM4)>>),
     false4 |-> Command("false",
                        Package(<<"m", "4", "/", "f", "a", "l", "s", "e">>, Modules.m4),
                        <<>>),
     tac2 |-> Command("tac", Package(<<"m", "2", "/", "t", "a", "c">>, Modules.m2Alt),
                      <<>>),
     yes5 |-> Command("yes",
                      Package(<<"m", "5", "/", "v", "2", "/", "y", "e", "s">>, Modules.m5),
                      <<Package(<<"m", "5", "/", "v", "2", "x", "/", "z">>, Modules.m5x)>>),
     echo |-> Command("echo", Package(<<"g", ".", "x", "/", "e", "c", "h", "o">>, Nil),
                      <<Package(<<"g", ".", "x", "/", "u">>, Nil)>>)]

Catalog == {Commands[k] : k \in DOMAIN Commands}

\* The sequences of the elements of a set, each once.
Perms(S) ==
    {f \in [1..Cardinality(S) -> S] : \A i, j \in 1..Cardinality(S) : f[i] = f[j] => i = j}

\* What findpkg.NewPackages may return: up to MaxCmds commands, each once, in
\* any order; with GO111MODULE=off no package has a module.
CmdLists(mode) ==
    {l \in UNION {[1..n -> Catalog] : n \in 0..MaxCmds} :
        /\ \A i, j \in 1..Len(l) : l[i] = l[j] => i = j
        /\ mode = "off" => \A i \in 1..Len(l) : l[i].Pkg.Module = Nil}

\* The Opts BuildBusybox is called with; nil stands for a nil pointer, and
\* GOPATH is opts.Env.GOPATH, which the caller has set to /go.
OptsSet ==
    {[nil |-> TRUE, EnvValid |-> TRUE, GO111MODULE |-> "on", GOPATH |-> "/go",
      GenSrcDir |-> "", GenerateOnly |-> FALSE, AllowMixedMode |-> FALSE]}
    \cup [nil : {FALSE}, EnvValid : BOOLEAN, GO111MODULE : {"on", "auto", "off"},
          GOPATH : {"/go"}, GenSrcDir : {"", "gen"}, GenerateOnly : BOOLEAN,
          AllowMixedMode : BOOLEAN]

\* What opts.GenSrcDir may name on disk: nothing, an empty directory, a
\* directory with entries, something that is no directory.
GenDiskStates == {"absent", "empty", "nonempty", "notdir"}


(***************************************************************************)
(* BuildBusybox.                                                           *)
(***************************************************************************)
tmpVars == <<tmpDir, deferSet>>
findVars == <<finderCalled, cmds>>
loopVars == <<idx, bbImports>>
depVars == <<localMods, goSum, goMod>>

Err(kind) == [kind |-> kind]

\* The deferred function of BuildBusybox logs where the tree is.
DeferLogs(err) == deferSet /\ err # Nil

DeferRemoves_Always(err) == deferSet

\* The deferred function of BuildBusybox removes the tree.
DeferRemoves(err) == deferSet /\ err = Nil

\* BuildBusybox returns err, having made dirs and written files under tmpDir
\* and logged lg: the deferred function runs.
Ret(err, dirs, files, lg) ==
    /\ bpc' = "done"
    /\ nerr' = err
    /\ log' = IF DeferLogs(err)
              THEN Append(lg, [kind |-> "preserve", dir |-> tmpDir])
              ELSE lg
    /\ IF DeferRemoves(err)
       THEN /\ tmpDisk' = "absent"
            /\ treeDirs' = {}
            /\ treeFiles' = {}
       ELSE /\ tmpDisk' = tmpDisk
            /\ treeDirs' = dirs
            /\ treeFiles' = files

\* BuildBusybox goes on at `next`.
Goto(next) ==
    /\ bpc' = next
    /\ nerr' = nerr

\* opts == nil, or opts.Env.Valid() returns an error.
ConfigReject ==
    /\ bpc = "start"
    /\ opts.nil \/ ~opts.EnvValid
    /\ Ret(Err(IF opts.nil THEN "no options given" ELSE "invalid environment"),
           treeDirs, treeFiles, log)
    /\ UNCHANGED <<opts, genDisk, tmpVars, findVars, loopVars, depVars, compiles, svars, rvars>>

GenDirUsable_Unless_NotDir(d) == d # "notdir"

\* What ioutil.ReadDir and the test of its result let through: a directory
\* that does not exist, or one without entries.
GenDirUsable(d) == d \in {"absent", "empty"}

\* opts.GenSrcDir cannot be read as a directory, or has entries.
GenDirReject ==
    /\ bpc = "start"
    /\ ~opts.nil /\ opts.EnvValid
    /\ opts.GenSrcDir # ""
    /\ ~GenDirUsable(genDisk)
    /\ Ret(Err(IF genDisk = "notdir" THEN "could not read directory"
               ELSE "not an empty directory"),
           treeDirs, treeFiles, log)
    /\ UNCHANGED <<opts, genDisk, tmpVars, findVars, loopVars, depVars, compiles, svars, rvars>>

\* opts.GenSrcDir does not exist and os.MkdirAll fails.
GenDirMkdirFails ==
    /\ bpc = "start"
    /\ ~opts.nil /\ opts.EnvValid
    /\ opts.GenSrcDir # ""
    /\ GenDirUsable(genDisk)
    /\ genDisk = "absent"
    /\ Ret(Err("could not create directory"), treeDirs, treeFiles, log)
    /\ UNCHANGED <<opts, genDisk, tmpVars, findVars, loopVars, depVars, compiles, svars, rvars>>

\* opts.GenSrcDir is made or is an empty directory, and filepath.Abs fails.
GenDirAbsFails ==
    /\ bpc = "start"
    /\ ~opts.nil /\ opts.EnvValid
    /\ opts.GenSrcDir # ""
    /\ GenDirUsable(genDisk)
    /\ genDisk' = "empty"
    /\ Ret(Err("could not be made absolute"), treeDirs, treeFiles, log)
    /\ UNCHANGED <<opts, tmpVars, findVars, loopVars, depVars, compiles, svars, rvars>>

\* opts.GenSrcDir is made, or is an empty directory: it is the tree's root,
\* a directory whose entries are treeDirs and treeFiles.
GenDirAccept ==
    /\ bpc = "start"
    /\ ~opts.nil /\ opts.EnvValid
    /\ opts.GenSrcDir # ""
    /\ GenDirUsable(genDisk)
    /\ genDisk' = "root"
    /\ tmpDir' = "gen"
    /\ Goto("find")
    /\ UNCHANGED <<opts, tmpDisk, deferSet, treeDirs, treeFiles, log, findVars,
                   loopVars, depVars, compiles, svars, rvars>>

\* No opts.GenSrcDir and opts.GenerateOnly.
GenerateOnlyReject ==
    /\ bpc = "start"
    /\ ~opts.nil /\ opts.EnvValid
    /\ opts.GenSrcDir = ""
    /\ opts.GenerateOnly
    /\ Ret(Err("generate switch requires directory"), treeDirs, treeFiles, log)
    /\ UNCHANGED <<opts, genDisk, tmpVars, findVars, loopVars, depVars, compiles, svars, rvars>>

\* No opts.GenSrcDir and ioutil.TempDir fails.
TempDirFails ==
    /\ bpc = "start"
    /\ ~opts.nil /\ opts.EnvValid
    /\ opts.GenSrcDir = ""
    /\ ~opts.GenerateOnly
    /\ Ret(Err("tempdir"), treeDirs, treeFiles, log)
    /\ UNCHANGED <<opts, genDisk, tmpVars, findVars, loopVars, depVars, compiles, svars, rvars>>

\* No opts.GenSrcDir: a fresh temporary directory is the tree's root, and the
\* deferred function is installed.
TempDirAccept ==
    /\ bpc = "start"
    /\ ~opts.nil /\ opts.EnvValid
    /\ opts.GenSrcDir = ""
    /\ ~opts.GenerateOnly
    /\ tmpDisk' = "present"
    /\ tmpDir' = "tmp"
    /\ deferSet' = TRUE
    /\ Goto("find")
    /\ UNCHANGED <<opts, genDisk, treeDirs, treeFiles, log, findVars, loopVars,
                   depVars, compiles, svars, rvars>>

\* os.MkdirAll(bbDir) fails.
BBDirFails ==
    /\ bpc = "find"
    /\ Ret(Err("mkdir bbDir"), treeDirs, treeFiles, log)
    /\ UNCHANGED <<opts, genDisk, tmpVars, findVars, loopVars, depVars, compiles, svars, rvars>>

\* findpkg.NewPackages returns an error.
FindFails ==
    /\ bpc = "find"
    /\ finderCalled' = TRUE
    /\ Ret(Err("finding packages failed"), treeDirs \cup {<<"bb", <<>>>>}, treeFiles, log)
    /\ UNCHANGED <<opts, genDisk, tmpVars, cmds, loopVars, depVars, compiles, svars, rvars>>

\* findpkg.NewPackages returns no command.
FindNone ==
    /\ bpc = "find"
    /\ finderCalled' = TRUE
    /\ Ret(Err("no valid commands given"), treeDirs \cup {<<"bb", <<>>>>}, treeFiles, log)
    /\ UNCHANGED <<opts, genDisk, tmpVars, cmds, loopVars, depVars, compiles, svars, rvars>>

\* findpkg.NewPackages returns commands.
FindSome ==
    /\ bpc = "find"
    /\ finderCalled' = TRUE
    /\ \E l \in CmdLists(opts.GO111MODULE) :
          /\ Len(l) > 0
          /\ cmds' = l
    /\ treeDirs' = treeDirs \cup {<<"bb", <<>>>>}
    /\ Goto("dup")
    /\ UNCHANGED <<opts, genDisk, tmpDisk, tmpVars, treeFiles, log, loopVars,
                   depVars, compiles, svars, rvars>>

\* checkDuplicate: the error for the first command whose name an earlier one
\* has, or nil.  seen maps the names met to their package paths.
RECURSIVE checkDuplicateFrom(_, _, _)
checkDuplicateFrom(l, i, seen) ==
    IF i > Len(l) THEN Nil
    ELSE LET cmd == l[i]
         IN  IF cmd.Name \in DOMAIN seen
             THEN [kind |-> "duplicate command", name |-> cmd.Name,
                   path1 |-> seen[cmd.Name], path2 |-> cmd.Pkg.PkgPath]
             ELSE checkDuplicateFrom(l, i + 1, (cmd.Name :> cmd.Pkg.PkgPath) @@ seen)

checkDuplicate_Never(l) == Nil

checkDuplicate(l) == checkDuplicateFrom(l, 1, <<>>)

CheckDuplicateFails ==
    /\ bpc = "dup"
    /\ checkDuplicate(cmds) # Nil
    /\ Ret(checkDuplicate(cmds), treeDirs, treeFiles, log)
    /\ UNCHANGED <<opts, genDisk, tmpVars, findVars, loopVars, depVars, compiles, svars, rvars>>

CheckDuplicatePasses ==
    /\ bpc = "dup"
    /\ checkDuplicate(cmds) = Nil
    /\ Goto("mixed")
    /\ UNCHANGED <<opts, genDisk, tmpDisk, tmpVars, treeDirs, treeFiles, log, findVars,
                   loopVars, depVars, compiles, svars, rvars>>

\* The keys of the map modules of BuildBusybox.
MainModulePaths(l) ==
    {l[i].Pkg.Module.Path : i \in {j \in 1..Len(l) : l[j].Pkg.Module # Nil}}

\* numNoModule of BuildBusybox.
NumNoModule(l) == Cardinality({i \in 1..Len(l) : l[i].Pkg.Module = Nil})

MixedModeRefused_AllowIgnored(o, l) ==
    Cardinality(MainModulePaths(l)) > 0 /\ NumNoModule(l) > 0

\* The condition under which BuildBusybox refuses mixed mode.
MixedModeRefused(o, l) ==
    ~o.AllowMixedMode /\ Cardinality(MainModulePaths(l)) > 0 /\ NumNoModule(l) > 0

\* The error names the keys of modules in the order listStrings ranges over
\* the map.
CheckMixedFails ==
    /\ bpc = "mixed"
    /\ MixedModeRefused(opts, cmds)
    /\ \E order \in Perms(MainModulePaths(cmds)) :
          Ret([kind |-> "mixed module/non-module", modules |-> order],
              treeDirs, treeFiles, log)
    /\ UNCHANGED <<opts, genDisk, tmpVars, findVars, loopVars, depVars, compiles, svars, rvars>>

CheckMixedPasses ==
    /\ bpc = "mixed"
    /\ ~MixedModeRefused(opts, cmds)
    /\ idx' = 1
    /\ Goto("rewrite")
    /\ UNCHANGED <<opts, genDisk, tmpDisk, tmpVars, treeDirs, treeFiles, log, findVars,
                   bbImports, depVars, compiles, svars, rvars>>

\* cmd.Rewrite fails for the command the loop is at.
RewriteFails ==
    /\ bpc = "rewrite"
    /\ idx <= Len(cmds)
    /\ Ret([kind |-> "rewriting command failed", path |-> cmds[idx].Pkg.PkgPath],
           treeDirs, treeFiles, log)
    /\ UNCHANGED <<opts, genDisk, tmpVars, findVars, loopVars, depVars, compiles, svars, rvars>>

\* cmd.Rewrite writes the command the loop is at into pkgDir; after the last
\* command, dealWithDeps is called.
RewriteCmd ==
    /\ bpc = "rewrite"
    /\ idx <= Len(cmds)
    /\ treeDirs' = treeDirs \cup {<<"pkg", cmds[idx].Pkg.PkgPath>>}
    /\ treeFiles' = treeFiles \cup {<<"cmd", cmds[idx].Pkg.PkgPath>>}
    /\ bbImports' = Append(bbImports, cmds[idx].Pkg.PkgPath)
    /\ idx' = IF idx = Len(cmds) THEN 1 ELSE idx + 1
    /\ Goto(IF idx = Len(cmds) THEN "seed" ELSE "rewrite")
    /\ UNCHANGED <<opts, genDisk, tmpDisk, tmpVars, log, findVars, depVars,
                   compiles, svars, rvars>>


(***************************************************************************)
(* localModules.                                                           *)
(***************************************************************************)
\* A path on the right of a replace directive that names a directory.
IsLocalPath(path) ==
    \/ HasPrefix(path, <<".", "/">>)
    \/ HasPrefix(path, <<".", ".", "/">>)
    \/ HasPrefix(path, <<"/">>)

isReplacedModuleLocal(m) == IsLocalPath(m.Path)

\* A package of a module that a replace directive replaces by a directory.
IsLocallyReplaced(pkg) ==
    /\ pkg.Module # Nil
    /\ pkg.Module.Replace # Nil
    /\ isReplacedModuleLocal(pkg.Module.Replace)

\* The map locallyReplacedModules builds as packages.Visit goes through the
\* packages of a command: the last package visited of a module path sets it.
RECURSIVE replacedFrom(_, _, _)
replacedFrom(graph, i, m) ==
    IF i > Len(graph) THEN m
    ELSE replacedFrom(graph, i + 1,
                      IF IsLocallyReplaced(graph[i])
                      THEN (graph[i].Module.Path :> graph[i].Module) @@ m
                      ELSE m)

locallyReplacedModules(cmd) ==
    IF cmd.Pkg.Module = Nil THEN <<>> ELSE replacedFrom(cmd.Graph, 1, <<>>)

\* What copyGoMod writes for a module: its directory, its go.mod and, when
\* there is one, its go.sum, which is also appended to the go.sum of bb.
CopyGoModDirs(mod) == {<<"mod", mod.Path>>}

CopyGoModFiles(mod) ==
    {<<"go.mod", mod.Path>>}
    \cup (IF HasGoSum(mod.GoMod) THEN {<<"go.sum", mod.Path>>, <<"bb", <<"go.sum">>>>} ELSE {})

CopyGoModSum_Always(gs, mod) == Append(gs, mod.GoMod)

\* copyGoMod appends the go.sum beside the go.mod of the module, when there
\* is one, to the go.sum of bb.
CopyGoModSum(gs, mod) == IF HasGoSum(mod.GoMod) THEN Append(gs, mod.GoMod) ELSE gs

\* The error of dealWithDeps as BuildBusybox returns it.
DepsErr(cause) ==
    [kind |-> "collecting and putting dependencies in place failed", cause |-> cause]

\* The first loop of localModules is at a command whose module is not in the
\* map yet: the module is entered and its go.mod copied.
SeedAdd ==
    /\ bpc = "seed"
    /\ idx <= Len(cmds)
    /\ LET mod == cmds[idx].Pkg.Module
       IN  /\ mod # Nil
           /\ mod.Path \notin DOMAIN localMods
           /\ localMods' =
                 (mod.Path :> [m |-> mod,
                               provenance |-> <<"your request to compile", mod.Path, mod.Dir>>])
                 @@ localMods
           /\ treeDirs' = treeDirs \cup CopyGoModDirs(mod)
           /\ treeFiles' = treeFiles \cup CopyGoModFiles(mod)
           /\ goSum' = CopyGoModSum(goSum, mod)
    /\ idx' = IF idx = Len(cmds) THEN 1 ELSE idx + 1
    /\ Goto(IF idx = Len(cmds) THEN "replaced" ELSE "seed")
    /\ UNCHANGED <<opts, genDisk, tmpDisk, tmpVars, log, findVars, bbImports, goMod,
                   compiles, svars, rvars>>

\* The same, and copyGoMod fails.
SeedCopyFails ==
    /\ bpc = "seed"
    /\ idx <= Len(cmds)
    /\ LET mod == cmds[idx].Pkg.Module
       IN  /\ mod # Nil
           /\ mod.Path \notin DOMAIN localMods
           /\ Ret(DepsErr([kind |-> "failed to copy go.mod", path |-> mod.Path]),
                  treeDirs \cup CopyGoModDirs(mod), treeFiles, log)
    /\ UNCHANGED <<opts, genDisk, tmpVars, findVars, loopVars, depVars, compiles, svars, rvars>>

\* The first loop is at a command without a module, or whose module path is
\* in the map.
SeedSkip ==
    /\ bpc = "seed"
    /\ idx <= Len(cmds)
    /\ LET mod == cmds[idx].Pkg.Module
       IN  IF mod = Nil THEN TRUE ELSE mod.Path \in DOMAIN localMods
    /\ idx' = IF idx = Len(cmds) THEN 1 ELSE idx + 1
    /\ Goto(IF idx = Len(cmds) THEN "replaced" ELSE "seed")
    /\ UNCHANGED <<opts, genDisk, tmpDisk, tmpVars, treeDirs, treeFiles, log, findVars,
                   bbImports, depVars, compiles, svars, rvars>>

SameRoot_Always(original, module) == TRUE

\* The test of the second loop of localModules: the module has the directory
\* of the one the map holds for its path.
SameRoot(original, module) == original.m.Dir = module.Dir

\* The body of the second loop of localModules for one command: its locally
\* replaced modules, in the order the map is ranged over.  A module path in
\* the map with another directory is an error; a new one is entered and its
\* go.mod copied, which fails at position failAt.
RECURSIVE replacedLoop(_, _, _, _, _)
replacedLoop(cmd, order, i, failAt, st) ==
    IF i > Len(order) THEN st
    ELSE LET modPath == order[i]
             module == locallyReplacedModules(cmd)[modPath]
         IN  IF modPath \in DOMAIN st.lm
             THEN IF ~SameRoot(st.lm[modPath], module)
                  THEN [st EXCEPT !.err =
                           [kind |-> "two conflicting versions of module",
                            path |-> modPath,
                            one |-> st.lm[modPath].provenance,
                            other |-> cmd.Pkg.Module.Path]]
                  ELSE replacedLoop(cmd, order, i + 1, failAt, st)
             ELSE LET lm == (modPath :> [m |-> module,
                                         provenance |-> <<"go.mod of", cmd.Pkg.Module.Path,
                                                          cmd.Pkg.Module.GoMod>>])
                            @@ st.lm
                  IN  IF i = failAt
                      THEN [st EXCEPT !.lm = lm,
                                      !.dirs = @ \cup CopyGoModDirs(module),
                                      !.err = [kind |-> "failed to copy go.mod",
                                               path |-> cmd.Pkg.Module.Path]]
                      ELSE replacedLoop(cmd, order, i + 1, failAt,
                                        [st EXCEPT !.lm = lm,
                                                   !.dirs = @ \cup CopyGoModDirs(module),
                                                   !.files = @ \cup CopyGoModFiles(module),
                                                   !.gs = CopyGoModSum(@, module)])

ReplacedResults(cmd) ==
    LET paths == DOMAIN locallyReplacedModules(cmd)
        st0 == [lm |-> localMods, dirs |-> treeDirs, files |-> treeFiles,
                gs |-> goSum, err |-> Nil]
    IN  {replacedLoop(cmd, order, 1, failAt, st0) :
            order \in Perms(paths), failAt \in 0..Cardinality(paths)}

\* The second loop is at a command and goes through its locally replaced
\* modules without an error.
ReplacedStep ==
    /\ bpc = "replaced"
    /\ idx <= Len(cmds)
    /\ \E st \in ReplacedResults(cmds[idx]) :
          /\ st.err = Nil
          /\ localMods' = st.lm
          /\ treeDirs' = st.dirs
          /\ treeFiles' = st.files
          /\ goSum' = st.gs
    /\ idx' = IF idx = Len(cmds) THEN 1 ELSE idx + 1
    /\ Goto(IF idx = Len(cmds) THEN "conflicts" ELSE "replaced")
    /\ UNCHANGED <<opts, genDisk, tmpDisk, tmpVars, log, findVars, bbImports, goMod,
                   compiles, svars, rvars>>

\* The second loop is at a command and returns an error: two local versions
\* of a module, or a go.mod that cannot be copied.
ReplacedFails ==
    /\ bpc = "replaced"
    /\ idx <= Len(cmds)
    /\ \E st \in ReplacedResults(cmds[idx]) :
          /\ st.err # Nil
          /\ localMods' = st.lm
          /\ goSum' = st.gs
          /\ Ret(DepsErr(st.err), st.dirs, st.files, log)
    /\ UNCHANGED <<opts, genDisk, tmpVars, findVars, loopVars, goMod, compiles, svars, rvars>>

moduleIdentifier(m) ==
    IF m.Replace # Nil /\ isReplacedModuleLocal(m.Replace)
    THEN <<"directory", m.Replace.Path>>
    ELSE <<"version", m.Version>>

\* filepath.Rel(base, targ), kept as the pair it is computed from.
Rel(base, targ) == <<"rel", base, targ>>

\* A package of the graph of mainPkg whose module path is in the map with
\* another directory.
Conflicts(lm, pkg) ==
    /\ pkg.Module # Nil
    /\ pkg.Module.Path \in DOMAIN lm
    /\ lm[pkg.Module.Path].m.Dir # pkg.Module.Dir

\* What the third loop of localModules logs for such a package.
ConflictLog(lm, mainPkg, pkg) ==
    LET l == lm[pkg.Module.Path]
    IN  <<[kind |-> "conflicting module dependencies", path |-> pkg.Module.Path,
           cmd |-> mainPkg.Pkg.Module.Path, uses |-> moduleIdentifier(pkg.Module),
           provenance |-> l.provenance, localUses |-> moduleIdentifier(l.m)],
          [kind |-> "suggestion", path |-> pkg.Module.Path,
           replacePath |-> Rel(mainPkg.Pkg.Module.Dir, l.m.Dir),
           gomod |-> mainPkg.Pkg.Module.GoMod]>>

RECURSIVE conflictScan_FirstCommand(_, _, _, _)
conflictScan_FirstCommand(lm, l, i, j) ==
    IF i > 1 \/ i > Len(l) \/ j > Len(l[i].Graph) THEN <<>>
    ELSE (IF Conflicts(lm, l[i].Graph[j]) THEN ConflictLog(lm, l[i], l[i].Graph[j])
          ELSE <<>>)
         \o conflictScan_FirstCommand(lm, l, i, j + 1)

\* The log of the third loop from package j of command i on.
RECURSIVE conflictScan(_, _, _, _)
conflictScan(lm, l, i, j) ==
    IF i > Len(l) THEN <<>>
    ELSE IF j > Len(l[i].Graph) THEN conflictScan(lm, l, i + 1, 1)
    ELSE (IF Conflicts(lm, l[i].Graph[j]) THEN ConflictLog(lm, l[i], l[i].Graph[j])
          ELSE <<>>)
         \o conflictScan(lm, l, i, j + 1)

\* The third loop of localModules found a conflict.
ConflictsFound ==
    /\ bpc = "conflicts"
    /\ conflictScan(localMods, cmds, 1, 1) # <<>>
    /\ Ret(DepsErr(Err("conflicting module dependencies found")), treeDirs, treeFiles,
           log \o conflictScan(localMods, cmds, 1, 1))
    /\ UNCHANGED <<opts, genDisk, tmpVars, findVars, loopVars, depVars, compiles, svars, rvars>>

\* The third loop found none: localModules returns the map.
ConflictsNone ==
    /\ bpc = "conflicts"
    /\ conflictScan(localMods, cmds, 1, 1) = <<>>
    /\ Goto("copy")
    /\ UNCHANGED <<opts, genDisk, tmpDisk, tmpVars, treeDirs, treeFiles, log, findVars,
                   loopVars, depVars, compiles, svars, rvars>>

(***************************************************************************)
(* dealWithDeps after localModules: the dependency packages and the go.mod *)
(* of bb.                                                                  *)
(***************************************************************************)
\* The first piece of strings.SplitN(pkgPath, "/", 2).
FirstComp(pkgPath) ==
    IF FirstSlash(pkgPath) = 0 THEN pkgPath
    ELSE SubSeq(pkgPath, 1, FirstSlash(pkgPath) - 1)

\* collectDeps: the packages packages.Visit visits from a command that pass
\* the filter deps is called with.
collectDeps(cmd, lm) ==
    IF cmd.Pkg.Module # Nil
    THEN SelectSeq(cmd.Graph, LAMBDA pkg :
                 \/ IsLocallyReplaced(pkg)
                 \/ \E modulePath \in DOMAIN lm : HasPrefix(pkg.PkgPath, modulePath))
    ELSE SelectSeq(cmd.Graph, LAMBDA pkg :
                 \E i \in 1..Len(FirstComp(pkg.PkgPath)) : FirstComp(pkg.PkgPath)[i] = ".")

\* localDepPkgs of dealWithDeps, as the set of the package paths WritePkg is
\* called with.
LocalDepPkgs(l, lm) ==
    UNION {{collectDeps(l[i], lm)[j].PkgPath : j \in 1..Len(collectDeps(l[i], lm))} :
              i \in 1..Len(l)}

\* WritePkg copies every local dependency package into pkgDir.
CopyDeps ==
    /\ bpc = "copy"
    /\ treeDirs' = treeDirs \cup {<<"pkg", q>> : q \in LocalDepPkgs(cmds, localMods)}
    /\ treeFiles' = treeFiles \cup {<<"dep", q>> : q \in LocalDepPkgs(cmds, localMods)}
    /\ Goto("gomod")
    /\ UNCHANGED <<opts, genDisk, tmpDisk, tmpVars, log, findVars, loopVars, depVars,
                   compiles, svars, rvars>>

\* WritePkg fails for one of them.
CopyDepsFails ==
    /\ bpc = "copy"
    /\ \E q \in LocalDepPkgs(cmds, localMods) :
          Ret(DepsErr([kind |-> "writing package failed", path |-> q]),
              treeDirs, treeFiles, log)
    /\ UNCHANGED <<opts, genDisk, tmpVars, findVars, loopVars, depVars, compiles, svars, rvars>>

\* modfile.File: the require and replace directives, and the lines of the
\* file the replace directives stand on, each with the number of its line.
ModFile(modulePath) ==
    [Module |-> modulePath, Require |-> <<>>, Replace |-> <<>>, Syntax |-> <<>>,
     nextLine |-> 1]

\* A replace directive that modfile.AddReplace has emptied.
ZeroReplace == [Old |-> [Path |-> <<>>, Version |-> ""],
                New |-> [Path |-> <<>>, Version |-> ""], line |-> 0]

\* modfile.File.AddRequire: the version of an existing require of path is
\* set, or a require is added.
AddRequire(f, path, vers) ==
    IF \E i \in 1..Len(f.Require) : f.Require[i].Path = path
    THEN [f EXCEPT !.Require =
             [i \in 1..Len(f.Require) |->
                 IF f.Require[i].Path = path
                 THEN [Path |-> path, Version |-> vers]
                 ELSE f.Require[i]]]
    ELSE [f EXCEPT !.Require = Append(@, [Path |-> path, Version |-> vers])]

\* The lines of the file with line n rewritten, taken out.
UpdateLine(syntax, n, d) ==
    [i \in 1..Len(syntax) |->
        IF syntax[i].line = n THEN [line |-> n, Old |-> d.Old, New |-> d.New]
        ELSE syntax[i]]

RemoveLine(syntax, n) == SelectSeq(syntax, LAMBDA l : l.line # n)

\* A line put after line hint, or at the end without a hint.
InsertLine(syntax, hint, l) ==
    IF \E i \in 1..Len(syntax) : syntax[i].line = hint
    THEN LET at == CHOOSE i \in 1..Len(syntax) : syntax[i].line = hint
         IN  SubSeq(syntax, 1, at) \o <<l>> \o SubSeq(syntax, at + 1, Len(syntax))
    ELSE Append(syntax, l)

\* The loop of modfile.File.AddReplace over f.Replace: the first directive
\* for oldPath (and oldVers, when given) takes the new right-hand side, later
\* ones are emptied and their lines removed; hint is the line of the last
\* directive for oldPath of another version.
RECURSIVE addReplaceLoop(_, _, _, _, _)
addReplaceLoop(f, i, need, hint, d) ==
    IF i > Len(f.Replace) THEN [f |-> f, need |-> need, hint |-> hint]
    ELSE LET r == f.Replace[i]
         IN  IF r.Old.Path = d.Old.Path
                /\ (d.Old.Version = "" \/ r.Old.Version = d.Old.Version)
             THEN IF need
                  THEN addReplaceLoop(
                          [f EXCEPT !.Replace[i].New = d.New,
                                    !.Syntax = UpdateLine(@, r.line, d)],
                          i + 1, FALSE, hint, d)
                  ELSE addReplaceLoop(
                          [f EXCEPT !.Replace[i] = ZeroReplace,
                                    !.Syntax = RemoveLine(@, r.line)],
                          i + 1, need,
                          IF d.Old.Path = <<>> THEN 0 ELSE hint, d)
             ELSE addReplaceLoop(f, i + 1, need,
                                 IF r.Old.Path = d.Old.Path THEN r.line ELSE hint, d)

\* modfile.File.AddReplace.
AddReplace(f, oldPath, oldVers, newPath, newVers) ==
    LET d == ReplaceDirective(oldPath, oldVers, newPath, newVers)
        res == addReplaceLoop(f, 1, TRUE, 0, d)
        g == res.f
    IN  IF res.need
        THEN [g EXCEPT !.Replace = Append(@, [Old |-> d.Old, New |-> d.New,
                                             line |-> g.nextLine]),
                       !.Syntax = InsertLine(@, res.hint,
                                             [line |-> g.nextLine, Old |-> d.Old,
                                              New |-> d.New]),
                       !.nextLine = @ + 1]
        ELSE g

\* path.Join("..", "..", mpath).
LocalReplacePath(mpath) == Clean(<<".", ".", "/", ".", ".", "/">> \o mpath)

\* The loop of dealWithDeps over the replace directives of a go.mod: those
\* that do not name a directory are added to the go.mod of bb.
RECURSIVE copyReplaces(_, _, _)
copyReplaces(f, rs, i) ==
    IF i > Len(rs) THEN f
    ELSE copyReplaces(IF IsLocalPath(rs[i].New.Path) THEN f
                      ELSE AddReplace(f, rs[i].Old.Path, rs[i].Old.Version,
                                      rs[i].New.Path, rs[i].New.Version),
                      rs, i + 1)

\* versionNum: the last element of the module path when the regular
\* expression v[0-9]+ matches somewhere in it, v0 otherwise.  Nothing calls
\* it.
versionNum(mpath) ==
    LET last == Base(mpath)
    IN  IF \E i \in 1..(Len(last) - 1) :
              last[i] = "v" /\ last[i + 1] \in {"0", "1", "2", "3", "4", "5", "6", "7", "8", "9"}
        THEN last
        ELSE <<"v", "0">>

\* The version dealWithDeps requires a local module at.
RequireVersion(module) == IF module.Version = "" THEN "v0.0.0" ELSE module.Version

\* The body of the loop of dealWithDeps over the local modules.
AddLocalModule(f, mpath, module) ==
    LET f1 == AddRequire(f, mpath, RequireVersion(module))
        f2 == AddReplace(f1, mpath, "", LocalReplacePath(mpath), "")
    IN  IF module.GoMod # "" THEN copyReplaces(f2, GoModReplace(module.GoMod), 1) ELSE f2

\* The loop, over the local modules in the order the map is ranged over.
RECURSIVE addLocalModules(_, _, _, _)
addLocalModules(f, lm, order, i) ==
    IF i > Len(order) THEN f
    ELSE addLocalModules(AddLocalModule(f, order[i], lm[order[i]].m), lm, order, i + 1)

\* modfile.File.Format: the file as written.
Format(f) ==
    [Module |-> f.Module, Require |-> f.Require,
     Replace |-> [i \in 1..Len(f.Syntax) |-> [Old |-> f.Syntax[i].Old,
                                               New |-> f.Syntax[i].New]]]

bbModulePath == <<"b", "b", ".", "u", "-", "r", "o", "o", "t", ".", "c", "o", "m", "/", "b", "b">>

\* The condition under which dealWithDeps writes a go.mod.
WritesGoMod(o, lm) == o.GO111MODULE = "on" \/ Cardinality(DOMAIN lm) > 0

\* dealWithDeps writes the go.mod of bb.
WriteGoMod ==
    /\ bpc = "gomod"
    /\ WritesGoMod(opts, localMods)
    /\ \E order \in Perms(DOMAIN localMods) :
          goMod' = Format(addLocalModules(ModFile(bbModulePath), localMods, order, 1))
    /\ treeFiles' = treeFiles \cup {<<"bb", <<"go.mod">>>>}
    /\ Goto("bbmain")
    /\ UNCHANGED <<opts, genDisk, tmpDisk, tmpVars, treeDirs, log, findVars, loopVars,
                   localMods, goSum, compiles, svars, rvars>>

\* A go.mod of a local module cannot be read or parsed, or the go.mod of bb
\* cannot be written.
WriteGoModFails ==
    /\ bpc = "gomod"
    /\ WritesGoMod(opts, localMods)
    /\ Ret(DepsErr(Err("go.mod")), treeDirs, treeFiles, log)
    /\ UNCHANGED <<opts, genDisk, tmpVars, findVars, loopVars, depVars, compiles, svars, rvars>>

\* GO111MODULE is auto or off and there is no local module: no go.mod.
SkipGoMod ==
    /\ bpc = "gomod"
    /\ ~WritesGoMod(opts, localMods)
    /\ Goto("bbmain")
    /\ UNCHANGED <<opts, genDisk, tmpDisk, tmpVars, treeDirs, treeFiles, log, findVars,
                   loopVars, depVars, compiles, svars, rvars>>

\* writeBBMain fails.
WriteBBMainFails ==
    /\ bpc = "bbmain"
    /\ Ret(Err("failed to write main.go"), treeDirs, treeFiles, log)
    /\ UNCHANGED <<opts, genDisk, tmpVars, findVars, loopVars, depVars, compiles, svars, rvars>>

WriteBBMain_AlwaysCompiles ==
    /\ bpc = "bbmain"
    /\ treeDirs' = treeDirs \cup {<<"bb", <<"pkg/bbmain">>>>}
    /\ treeFiles' = treeFiles \cup {<<"bb", <<"main.go">>>>,
                                    <<"bb", <<"pkg/bbmain/register.go">>>>}
    /\ Goto("compile")
    /\ UNCHANGED <<opts, genDisk, tmpDisk, tmpVars, log, findVars, loopVars, depVars,
                   compiles, svars, rvars>>

\* writeBBMain writes main.go; with opts.GenerateOnly BuildBusybox returns.
WriteBBMain ==
    /\ bpc = "bbmain"
    /\ IF opts.GenerateOnly
       THEN Ret(Nil, treeDirs \cup {<<"bb", <<"pkg/bbmain">>>>},
                treeFiles \cup {<<"bb", <<"main.go">>>>, <<"bb", <<"pkg/bbmain/register.go">>>>},
                log)
       ELSE /\ treeDirs' = treeDirs \cup {<<"bb", <<"pkg/bbmain">>>>}
            /\ treeFiles' = treeFiles \cup {<<"bb", <<"main.go">>>>,
                                            <<"bb", <<"pkg/bbmain/register.go">>>>}
            /\ Goto("compile")
            /\ UNCHANGED <<tmpDisk, log>>
    /\ UNCHANGED <<opts, genDisk, tmpVars, findVars, loopVars, depVars, compiles, svars, rvars>>

GopathBuild_OffOnly(o, l) == o.GO111MODULE = "off"

\* The build is a GOPATH build.
GopathBuild(o, l) == o.GO111MODULE = "off" \/ NumNoModule(l) > 0

\* What BuildBusybox leaves opts.Env as before it compiles: GOPATH is the
\* root of the tree for a GOPATH build.
CompileEnv(o, l, dir) == IF GopathBuild(o, l) THEN [o EXCEPT !.GOPATH = dir] ELSE o

\* The error opts.Env.BuildDir returns.
BuildDirErr == [kind |-> "go build"]

\* opts.Env.BuildDir compiles bb.
Compile ==
    /\ bpc = "compile"
    /\ opts' = CompileEnv(opts, cmds, tmpDir)
    /\ compiles' = compiles + 1
    /\ Ret(Nil, treeDirs, treeFiles, log)
    /\ UNCHANGED <<genDisk, tmpVars, findVars, loopVars, depVars, svars, rvars>>

\* opts.Env.BuildDir fails.
CompileFails ==
    /\ bpc = "compile"
    /\ opts' = CompileEnv(opts, cmds, tmpDir)
    /\ compiles' = compiles + 1
    /\ Ret(IF GopathBuild(opts, cmds)
           THEN [kind |-> "ErrGopathBuild", CmdDir |-> <<tmpDir, "bb">>,
                 GOPATH |-> tmpDir, Err |-> BuildDirErr]
           ELSE [kind |-> "ErrModuleBuild", CmdDir |-> <<tmpDir, "bb">>,
                 Err |-> BuildDirErr],
           treeDirs, treeFiles, log)
    /\ UNCHANGED <<genDisk, tmpVars, findVars, loopVars, depVars, svars, rvars>>

\* BuildBusybox is called, the stub not being part of it.
BuildInit ==
    /\ opts \in OptsSet
    /\ genDisk \in GenDiskStates
    /\ opts.GenSrcDir = "" => genDisk = "absent"
    /\ bpc = "start"
    /\ tmpDisk = "absent"
    /\ tmpDir = ""
    /\ deferSet = FALSE
    /\ treeDirs = {}
    /\ treeFiles = {}
    /\ log = <<>>
    /\ nerr = Nil
    /\ finderCalled = FALSE
    /\ cmds = <<>>
    /\ idx = 0
    /\ bbImports = <<>>
    /\ localMods = <<>>
    /\ goSum = <<>>
    /\ goMod = Nil
    /\ compiles = 0
    /\ fs = CHOOSE f \in StubFS : TRUE
    /\ args = <<Str.bbinBb>>
    /\ args0 = args
    /\ pc = "off"
    /\ StubIdle
    /\ RewriteIdle

BuildNext ==
    \/ ConfigReject
    \/ GenDirReject
    \/ GenDirMkdirFails
    \/ GenDirAbsFails
    \/ GenDirAccept
    \/ GenerateOnlyReject
    \/ TempDirFails
    \/ TempDirAccept
    \/ BBDirFails
    \/ FindFails
    \/ FindNone
    \/ FindSome
    \/ CheckDuplicateFails
    \/ CheckDuplicatePasses
    \/ CheckMixedFails
    \/ CheckMixedPasses
    \/ RewriteFails
    \/ RewriteCmd
    \/ SeedAdd
    \/ SeedCopyFails
    \/ SeedSkip
    \/ ReplacedStep
    \/ ReplacedFails
    \/ ConflictsFound
    \/ ConflictsNone
    \/ CopyDeps
    \/ CopyDepsFails
    \/ WriteGoMod
    \/ WriteGoModFails
    \/ SkipGoMod
    \/ WriteBBMainFails
    \/ WriteBBMain
    \/ Compile
    \/ CompileFails

BuildSpec == BuildInit /\ [][BuildNext]_vars

(***************************************************************************)
(* The rewrite of a command into a package (AST Rewriter) and the run of   *)
(* its dispatch entry.  A program is the sequence of its top-level          *)
(* declarations that matter here, in file order and then source order: a   *)
(* variable with a trivially constant initializer, a variable with another *)
(* initializer, an init function.  Declaration i has the effect <<kind, i>>.*)
(***************************************************************************)
DeclKinds == {"const var", "var", "init"}

Programs == UNION {[1..n -> DeclKinds] : n \in 0..MaxDecls}

\* The positions of the declarations of a kind, in order.
RECURSIVE DeclsOf(_, _, _)
DeclsOf(pr, kind, i) ==
    IF i > Len(pr) THEN <<>>
    ELSE (IF pr[i] = kind THEN <<i>> ELSE <<>>) \o DeclsOf(pr, kind, i + 1)

EffectsOf(kind, positions) == [k \in 1..Len(positions) |-> <<kind, positions[k]>>]

\* The program run standalone: the variables are initialized, then the init
\* functions run in file and source order, then main.
Standalone(pr) ==
    EffectsOf("var", DeclsOf(pr, "var", 1))
    \o EffectsOf("init", DeclsOf(pr, "init", 1))
    \o <<<<"main", 0>>>>

\* cmd.Rewrite: the init functions are renamed init0, init1, ... in order;
\* the initializers that are not trivially constant are moved into a
\* synthesized initializer function appended after them; main becomes
\* registeredMain.
Rewrite(pr) ==
    [inits |-> EffectsOf("init", DeclsOf(pr, "init", 1)),
     synthesized |-> EffectsOf("var", DeclsOf(pr, "var", 1)),
     registeredMain |-> <<<<"main", 0>>>>]

\* The init chain registered for the package: every renamed init in
\* original order, then the synthesized initializer.
InitChain(pkg) == pkg.inits \o pkg.synthesized

\* A command's program is given to cmd.Rewrite.
RewriteStart ==
    /\ rpc = "off"
    /\ \E pr \in Programs : prog' = pr
    /\ rpc' = "source"
    /\ UNCHANGED <<rewritten, effects, svars, bvars>>

\* cmd.Rewrite writes the package.
RewriteProgram ==
    /\ rpc = "source"
    /\ rewritten' = Rewrite(prog)
    /\ rpc' = "rewritten"
    /\ UNCHANGED <<prog, effects, svars, bvars>>

\* The dispatch entry of the package is invoked: the init chain runs.
RunInitChain ==
    /\ rpc = "rewritten"
    /\ effects' = effects \o InitChain(rewritten)
    /\ rpc' = "chained"
    /\ UNCHANGED <<prog, rewritten, svars, bvars>>

\* Then registeredMain runs.
RunRegisteredMain ==
    /\ rpc = "chained"
    /\ effects' = effects \o rewritten.registeredMain
    /\ rpc' = "ran"
    /\ UNCHANGED <<prog, rewritten, svars, bvars>>

RewriteInit ==
    /\ fs = CHOOSE f \in StubFS : TRUE
    /\ args = <<Str.bbinBb>>
    /\ args0 = args
    /\ pc = "off"
    /\ StubIdle
    /\ BuildIdle
    /\ RewriteIdle

RewriteNext == RewriteStart \/ RewriteProgram \/ RunInitChain \/ RunRegisteredMain

RewriteSpec == RewriteInit /\ [][RewriteNext]_vars

(***************************************************************************)
(* C1.  The shebang rewrite of init(): started with at least 3 entries of  *)
(* which the second begins with the characters # and !, os.Args loses its  *)
(* first two entries and keeps the others in order; started with anything  *)
(* else, init() leaves os.Args as it was.  Started as                      *)
(* [/bbin/bb, #!ls, /tmp/ls, -la] the stub runs ls with [/tmp/ls, -la].    *)
(***************************************************************************)
ShebangExample == <<Str.bbinBb, Str.shebangLs, Str.tmpLs, Str.dashLa>>

C1_ShebangRewrite ==
    /\ pc # "start" =>
          IF /\ Len(args0) >= 3
             /\ Len(args0[2]) >= 2
             /\ args0[2][1] = "#"
             /\ args0[2][2] = "!"
          THEN /\ Len(argsInit) = Len(args0) - 2
               /\ \A i \in 1..Len(argsInit) : argsInit[i] = args0[i + 2]
          ELSE argsInit = args0
    /\ (args0 = ShebangExample /\ pc \in {"run", "ran", "fatal"}) =>
          /\ pc \in {"run", "ran"}
          /\ args = <<Str.tmpLs, Str.dashLa>>
          /\ Base(args[1]) = Str.ls
          /\ pc = "ran" => ranName = Str.ls

C1_Witness ==
    /\ args0 = ShebangExample
    /\ pc = "ran"
    /\ ranName = Str.ls
    /\ args = <<Str.tmpLs, Str.dashLa>>

(***************************************************************************)
(* C2.  Dispatch by name with fallback: run() dispatches on the basename   *)
(* of argv[0]; each miss with at least 2 entries shifts argv left by       *)
(* exactly one entry and dispatches again, and a miss with one entry is    *)
(* fatal.  So when main() calls run() with [binary, cmd, a1, .., an],      *)
(* the binary's name not registered and cmd registered, the entry of cmd   *)
(* runs with argv = [cmd, a1, .., an].                                     *)
(***************************************************************************)
C2_DispatchFallback ==
    /\ pc \in {"run", "ran", "fatal"} =>
          /\ shifts < Len(argsMain)
          /\ Len(args) = Len(argsMain) - shifts
          /\ \A i \in 1..Len(args) : args[i] = argsMain[i + shifts]
          /\ \A j \in 1..shifts : Base(argsMain[j]) \notin Registered
          /\ pc = "ran" => ranName = Base(args[1]) /\ ranName \in Registered
          /\ pc = "fatal" => Len(args) = 1 /\ Base(args[1]) \notin Registered
    /\ ( /\ pc \in {"ran", "fatal"}
         /\ Len(argsMain) >= 2
         /\ Base(argsMain[1]) \notin Registered
         /\ Base(argsMain[2]) \in Registered ) =>
          /\ pc = "ran"
          /\ ranName = Base(argsMain[2])
          /\ Len(args) = Len(argsMain) - 1
          /\ \A i \in 1..Len(args) : args[i] = argsMain[i + 1]

C2_Witness ==
    /\ pc = "ran"
    /\ argsMain = <<Str.bbinBb, Str.ls, Str.dashLa>>
    /\ ranName = Str.ls
    /\ args = <<Str.ls, Str.dashLa>>

(***************************************************************************)
(* C3.  ResolveUntilLastSymlink returns the last symbolic link of a finite *)
(* acyclic chain, not the file the chain ends in: its result names the     *)
(* link whose target is no symbolic link, reached from the path by         *)
(* following each link's target from the directory that holds the link;    *)
(* it is an absolute path when a link was followed, and the path as given  *)
(* when the path is no symbolic link or its target is none.                *)
(***************************************************************************)
\* The node a symbolic link points to, as the kernel follows it.
LinkTargetNode(node) ==
    LET t == fs[node].t
    IN  WalkFrom(IF IsAbs(t) THEN <<>> ELSE SubSeq(node, 1, Len(node) - 1),
                 SplitSlash(t))

\* The last link of the chain that starts at the link `node`; NoNode when
\* the chain does not end within `fuel` links.
RECURSIVE LastLinkFrom(_, _)
LastLinkFrom(node, fuel) ==
    IF fuel = 0 THEN NoNode
    ELSE LET t == LinkTargetNode(node)
         IN  IF NodeKind(t) = "link" THEN LastLinkFrom(t, fuel - 1) ELSE node

LastLink(node) == LastLinkFrom(node, Cardinality(Slots))

C3_LastSymlink ==
    argsMain # <<>> =>
        LET p0 == argsInit[1]
            res == argsMain[1]
            n0 == Walk(p0)
        IN  IF NodeKind(n0) = "link"
            THEN LastLink(n0) # NoNode =>
                    /\ Walk(res) = LastLink(n0)
                    /\ LastLink(n0) # n0 => IsAbs(res)
                    /\ LastLink(n0) = n0 => res = p0
            ELSE res = p0

\* /bin/sh -> ../bbin/ls, /bbin/ls -> sh, /bbin/sh -> bb: the last link of
\* the chain from /bin/sh is /bbin/sh.
C3_Witness ==
    /\ argsMain # <<>>
    /\ args0[1] = Str.binSh
    /\ fs[<<FileName.bin, FileName.sh>>] = [k |-> "link", t |-> Str.upBbinLs]
    /\ fs[<<FileName.bbin, FileName.ls>>] = [k |-> "link", t |-> Str.sh]
    /\ fs[<<FileName.bbin, FileName.sh>>] = [k |-> "link", t |-> Str.bb]
    /\ argsMain[1] = Str.bbinSh

(***************************************************************************)
(* Shared by the claims about BuildBusybox.                                *)
(***************************************************************************)
NamesDistinct(l) == \A i, j \in 1..Len(l) : l[i].Name = l[j].Name => i = j

Failed(kind) == bpc = "done" /\ nerr # Nil /\ nerr.kind = kind

\* dealWithDeps failed with an error of this kind.
DepsFailed(kind) ==
    /\ Failed("collecting and putting dependencies in place failed")
    /\ nerr.cause.kind = kind

\* BuildBusybox wrote the path of the tree to the log.
PathLogged == \E i \in 1..Len(log) : log[i].kind = "preserve" /\ log[i].dir = tmpDir

(***************************************************************************)
(* C4.  Command names are unique in every build that rewrites anything:    *)
(* when two of the commands the package finder returned share a name,      *)
(* BuildBusybox has returned, once checkDuplicate has run, a duplicate     *)
(* command error that names that name and the package paths of two         *)
(* commands that have it, no command has been rewritten and no file is in  *)
(* the generated tree; and whenever a command has been rewritten, the      *)
(* names of the commands are pairwise distinct.                            *)
(***************************************************************************)
C4_DuplicateNames ==
    /\ (cmds # <<>> /\ bpc # "dup" /\ ~NamesDistinct(cmds)) =>
          /\ Failed("duplicate command")
          /\ \E i, j \in 1..Len(cmds) :
                /\ i < j
                /\ cmds[i].Name = nerr.name
                /\ cmds[j].Name = nerr.name
                /\ nerr.path1 = cmds[i].Pkg.PkgPath
                /\ nerr.path2 = cmds[j].Pkg.PkgPath
          /\ bbImports = <<>>
          /\ treeFiles = {}
    /\ bbImports # <<>> => NamesDistinct(cmds)

C4_Witness ==
    /\ Failed("duplicate command")
    /\ nerr.name = "ls"
    /\ nerr.path1 # nerr.path2
    /\ treeFiles = {}

(***************************************************************************)
(* C5.  Configuration errors are rejected before any side effect: a step   *)
(* of BuildBusybox from its start, when opts is nil or the environment is  *)
(* invalid, or the supplied genSrcDir has an entry, or generateOnly is set *)
(* without a genSrcDir, returns an error, and makes no temporary           *)
(* directory, changes nothing of genSrcDir and does not call the package   *)
(* finder.  A step that goes on with a supplied genSrcDir that was absent  *)
(* or empty leaves it existing, as the root of the tree.                   *)
(***************************************************************************)
ConfigError ==
    \/ opts.nil
    \/ ~opts.EnvValid
    \/ opts.GenSrcDir # "" /\ genDisk = "nonempty"
    \/ opts.GenSrcDir = "" /\ opts.GenerateOnly

C5_ConfigRejected ==
    [][bpc = "start" =>
          /\ ConfigError =>
                /\ bpc' = "done"
                /\ nerr' # Nil
                /\ tmpDisk' = "absent"
                /\ tmpDir' = ""
                /\ genDisk' = genDisk
                /\ treeDirs' = {}
                /\ treeFiles' = {}
                /\ ~finderCalled'
          /\ (~ConfigError /\ opts.GenSrcDir # "" /\ genDisk \in {"absent", "empty"}
                /\ bpc' # "done") =>
                /\ genDisk' = "root"
                /\ tmpDir' = "gen"
                /\ tmpDisk' = "absent"]_vars

C5_Witness ==
    /\ bpc = "done"
    /\ ~opts.nil /\ opts.EnvValid
    /\ opts.GenSrcDir # ""
    /\ genDisk = "nonempty"
    /\ nerr # Nil
    /\ ~finderCalled
    /\ treeDirs = {}

(***************************************************************************)
(* C6.  The life of the generated tree, for a call that compiles and has   *)
(* chosen the root of the tree.  As claimed: a call that returns success   *)
(* has deleted the tree, and a call that returns an error has left it on   *)
(* disk and logged its path, for either kind of root.                      *)
(***************************************************************************)
TreeDeleted ==
    /\ treeDirs = {}
    /\ treeFiles = {}
    /\ IF tmpDir = "tmp" THEN tmpDisk = "absent" ELSE genDisk = "absent"

TreeOnDisk == IF tmpDir = "tmp" THEN tmpDisk = "present" ELSE genDisk = "root"

C6_AsClaimed ==
    (bpc = "done" /\ ~opts.GenerateOnly /\ tmpDir # "") =>
        /\ nerr = Nil => TreeDeleted
        /\ nerr # Nil => TreeOnDisk /\ PathLogged

(***************************************************************************)
(* C6, as the code has it: with a fresh temporary directory as root, a     *)
(* call that returns success has deleted the tree and a call that returns  *)
(* an error has left it on disk and logged its path; with a genSrcDir of   *)
(* the caller as root, the tree is left on disk on success as on error,    *)
(* and its path is never logged.                                           *)
(***************************************************************************)
C6_TreeLifecycle ==
    (bpc = "done" /\ ~opts.GenerateOnly /\ tmpDir # "") =>
        IF tmpDir = "tmp"
        THEN /\ nerr = Nil => TreeDeleted
             /\ nerr # Nil => TreeOnDisk /\ PathLogged
        ELSE /\ TreeOnDisk
             /\ ~PathLogged
             /\ nerr = Nil => <<"bb", <<"main.go">>>> \in treeFiles

C6_Witness ==
    /\ bpc = "done"
    /\ ~opts.GenerateOnly
    /\ tmpDir = "gen"
    /\ nerr = Nil
    /\ compiles = 1
    /\ <<"bb", <<"main.go">>>> \in treeFiles

(***************************************************************************)
(* C7.  Mixed mode is rejected unless allowed: once the check has run on   *)
(* commands of distinct names, if allowMixedMode is false and there is a   *)
(* command with a module and one without, BuildBusybox has returned an     *)
(* error that names every distinct module path of the commands with a      *)
(* module, each once, and no command has been rewritten; if allowMixedMode *)
(* is true, or all commands have a module, or none has, BuildBusybox does  *)
(* not return that error.                                                  *)
(***************************************************************************)
WithModule(l) == {i \in 1..Len(l) : l[i].Pkg.Module # Nil}

IsMixed(l) == WithModule(l) # {} /\ WithModule(l) # 1..Len(l)

C7_MixedMode ==
    (cmds # <<>> /\ bpc \notin {"dup", "mixed"} /\ NamesDistinct(cmds)) =>
        IF ~opts.AllowMixedMode /\ IsMixed(cmds)
        THEN /\ Failed("mixed module/non-module")
             /\ {nerr.modules[i] : i \in 1..Len(nerr.modules)}
                   = {cmds[i].Pkg.Module.Path : i \in WithModule(cmds)}
             /\ \A i, j \in 1..Len(nerr.modules) :
                   nerr.modules[i] = nerr.modules[j] => i = j
             /\ bbImports = <<>>
             /\ treeFiles = {}
        ELSE ~Failed("mixed module/non-module")

C7_Witness ==
    /\ Failed("mixed module/non-module")
    /\ Len(cmds) > 1
    /\ Len(nerr.modules) > 0
    /\ ~opts.AllowMixedMode

(***************************************************************************)
(* C8.  Local require and replace for every local module, as claimed: the  *)
(* go.mod dealWithDeps has written for a non-empty set of local modules    *)
(* has, for every module path M of the set, a require of M and a replace   *)
(* M => ../../M, whatever replace directives were copied from the go.mod   *)
(* files of the local modules and in whatever order the local modules were *)
(* gone through.                                                           *)
(***************************************************************************)
HasRequire(gm, M) == \E i \in 1..Len(gm.Require) : gm.Require[i].Path = M

HasLocalReplace(gm, M) ==
    \E i \in 1..Len(gm.Replace) :
        /\ gm.Replace[i].Old.Path = M
        /\ gm.Replace[i].New.Path = <<".", ".", "/", ".", ".", "/">> \o M

C8_AsClaimed ==
    (goMod # Nil /\ DOMAIN localMods # {}) =>
        \A M \in DOMAIN localMods : HasRequire(goMod, M) /\ HasLocalReplace(goMod, M)

(***************************************************************************)
(* Shared by C9 and C10: how far localModules got.                         *)
(***************************************************************************)
\* localModules has returned the map.
LocalModulesReturned ==
    \/ bpc \in {"copy", "gomod", "bbmain", "compile"}
    \/ bpc = "done" /\ Len(cmds) > 0 /\ Len(bbImports) = Len(cmds) /\ nerr = Nil
    \/ Failed("failed to write main.go")
    \/ Failed("ErrGopathBuild")
    \/ Failed("ErrModuleBuild")
    \/ DepsFailed("writing package failed")
    \/ DepsFailed("go.mod")

\* The second loop of localModules has ended without an error.
ReplacedLoopPassed ==
    \/ bpc = "conflicts"
    \/ DepsFailed("conflicting module dependencies found")
    \/ LocalModulesReturned

\* Package j of the graph of command i is of a module that a replace
\* directive of the command's module replaces by a directory.
LocallyReplacedAt(i, j) ==
    LET pkg == cmds[i].Graph[j]
    IN  /\ cmds[i].Pkg.Module # Nil
        /\ pkg.Module # Nil
        /\ pkg.Module.Replace # Nil
        /\ \/ HasPrefix(pkg.Module.Replace.Path, <<".", "/">>)
           \/ HasPrefix(pkg.Module.Replace.Path, <<".", ".", "/">>)
           \/ HasPrefix(pkg.Module.Replace.Path, <<"/">>)

GraphPositions ==
    UNION {{<<i, j>> : j \in 1..Len(cmds[i].Graph)} : i \in 1..Len(cmds)}

\* Every locally replaced module of the graphs has the directory the map
\* holds for its path.
ReplacedRootsAgree ==
    \A ij \in GraphPositions :
        LocallyReplacedAt(ij[1], ij[2]) =>
            LET mod == cmds[ij[1]].Graph[ij[2]].Module
            IN  /\ mod.Path \in DOMAIN localMods
                /\ localMods[mod.Path].m.Dir = mod.Dir

\* Every module of a command has the directory the map holds for its path.
CommandRootsAgree ==
    \A i \in 1..Len(cmds) :
        cmds[i].Pkg.Module # Nil =>
            /\ cmds[i].Pkg.Module.Path \in DOMAIN localMods
            /\ localMods[cmds[i].Pkg.Module.Path].m.Dir = cmds[i].Pkg.Module.Dir

Suggested(path) == \E k \in 1..Len(log) : log[k].kind = "suggestion" /\ log[k].path = path

ConflictAt(i, j) ==
    LET mod == cmds[i].Graph[j].Module
    IN  /\ mod # Nil
        /\ mod.Path \in DOMAIN localMods
        /\ localMods[mod.Path].m.Dir # mod.Dir

SuggestedFor(i, j) ==
    LET mod == cmds[i].Graph[j].Module
    IN  \E k \in 1..Len(log) :
           /\ log[k].kind = "suggestion"
           /\ log[k].path = mod.Path
           /\ log[k].replacePath
                 = <<"rel", cmds[i].Pkg.Module.Dir, localMods[mod.Path].m.Dir>>
           /\ log[k].gomod = cmds[i].Pkg.Module.GoMod

\* The module of command i is met with another directory in a graph.
ProvidedAndMetElsewhere ==
    \E i \in 1..Len(cmds) : \E ij \in GraphPositions :
        /\ cmds[i].Pkg.Module # Nil
        /\ cmds[ij[1]].Graph[ij[2]].Module # Nil
        /\ cmds[ij[1]].Graph[ij[2]].Module.Path = cmds[i].Pkg.Module.Path
        /\ cmds[ij[1]].Graph[ij[2]].Module.Dir # cmds[i].Pkg.Module.Dir

ByteOrder == <<".", "/", "1", "2", "3", "4", "m", "q", "r">>

CharRank(c) == CHOOSE k \in 1..Len(ByteOrder) : ByteOrder[k] = c

RECURSIVE PathLess(_, _)
PathLess(a, b) ==
    IF a = <<>> THEN b # <<>>
    ELSE IF b = <<>> THEN FALSE
    ELSE IF Head(a) = Head(b) THEN PathLess(Tail(a), Tail(b))
    ELSE CharRank(Head(a)) < CharRank(Head(b))

SortedPaths(S) ==
    CHOOSE s \in Perms(S) : \A i \in 1..(Len(s) - 1) : PathLess(s[i], s[i + 1])

\* The map and the go.sum of bb after the first loop of localModules.
RECURSIVE SeededFrom(_, _)
SeededFrom(i, st) ==
    IF i > Len(cmds) THEN st
    ELSE LET mod == cmds[i].Pkg.Module
         IN  SeededFrom(i + 1,
                IF mod = Nil THEN st
                ELSE IF mod.Path \in DOMAIN st.lm THEN st
                ELSE [st EXCEPT !.lm = (mod.Path :> [m |-> mod, provenance |-> <<>>]) @@ @,
                                !.gs = CopyGoModSum(@, mod)])

\* The same after the second loop, each map ranged over in sorted order.
RECURSIVE SortedReplacedFrom(_, _)
SortedReplacedFrom(i, st) ==
    IF i > Len(cmds) THEN st
    ELSE SortedReplacedFrom(i + 1,
            replacedLoop(cmds[i], SortedPaths(DOMAIN locallyReplacedModules(cmds[i])),
                         1, 0, st))

SortedGoSum ==
    SortedReplacedFrom(1, SeededFrom(1, [lm |-> <<>>, dirs |-> {}, files |-> {},
                                         gs |-> <<>>, err |-> Nil])).gs

SortedGoMod ==
    Format(addLocalModules(ModFile(bbModulePath), localMods,
                           SortedPaths(DOMAIN localMods), 1))

C11_AsClaimed ==
    /\ goMod # Nil => goMod = SortedGoMod
    /\ ReplacedLoopPassed => goSum = SortedGoSum
    /\ Failed("mixed module/non-module") =>
          nerr.modules = SortedPaths({cmds[i].Pkg.Module.Path : i \in WithModule(cmds)})

(***************************************************************************)
(* C12.  Compile failures are of two kinds: when the compiler returns an   *)
(* error, BuildBusybox returns ErrGopathBuild exactly when GO111MODULE is  *)
(* off or a command has no module, which is exactly when GOPATH was set to *)
(* the root of the tree before compiling, and ErrModuleBuild otherwise;    *)
(* either error wraps the compiler's error and carries the directory of    *)
(* bb in the tree, and ErrGopathBuild the GOPATH.                          *)
(***************************************************************************)
CompileFailed == Failed("ErrGopathBuild") \/ Failed("ErrModuleBuild")

C12_CompileErrorKinds ==
    /\ CompileFailed =>
          /\ compiles = 1
          /\ nerr.Err = [kind |-> "go build"]
          /\ nerr.CmdDir = <<tmpDir, "bb">>
          /\ nerr.kind = "ErrGopathBuild"
                <=> (opts.GO111MODULE = "off" \/ WithModule(cmds) # 1..Len(cmds))
          /\ nerr.kind = "ErrGopathBuild" <=> opts.GOPATH = tmpDir
          /\ nerr.kind = "ErrGopathBuild" => nerr.GOPATH = tmpDir
    /\ compiles = 1 =>
          (opts.GOPATH = tmpDir
              <=> (opts.GO111MODULE = "off" \/ WithModule(cmds) # 1..Len(cmds)))
    /\ compiles = 0 => opts.GOPATH = "/go"

C12_Witness ==
    /\ Failed("ErrGopathBuild")
    /\ opts.GO111MODULE = "auto"
    /\ opts.GOPATH = tmpDir
    /\ Len(cmds) > 1

(***************************************************************************)
(* C13.  Init-order preservation, as claimed: for any single command, the  *)
(* effects of invoking its dispatch entry (the chain of renamed inits,     *)
(* then the synthesized initializers of the moved variable                 *)
(* initializations, then registeredMain) are, in order, the effects of     *)
(* running the original program standalone (variable initializations,      *)
(* then the init functions, then main).                                    *)
(***************************************************************************)
C13_AsClaimed == rpc = "ran" => effects = Standalone(prog)

(***************************************************************************)
(* C14.  The order of the steps of BuildBusybox: find packages, duplicate  *)
(* and mixed-mode checks, rewrite of each command once and in order, local *)
(* dependencies and go.mod, main.go, compile.  Every step of a run moves   *)
(* to a later stage or to the next command of a loop, so nothing runs      *)
(* twice; a stage is reached only with what the earlier stages made and    *)
(* without what the later ones make; the compiler is invoked at most once, *)
(* after all of them and never with generateOnly; a failing step ends the  *)
(* run with its error and nothing runs after the return.                   *)
(***************************************************************************)
Stages ==
    <<"start", "find", "dup", "mixed", "rewrite", "seed", "replaced", "conflicts",
      "copy", "gomod", "bbmain", "compile", "done">>

StageOf(at) == CHOOSE k \in 1..Len(Stages) : Stages[k] = at

AtOrAfter(at) == bpc # "done" /\ StageOf(bpc) >= StageOf(at)

Before(at) == bpc # "done" /\ StageOf(bpc) < StageOf(at)

AllRewritten ==
    /\ Len(bbImports) = Len(cmds)
    /\ \A i \in 1..Len(cmds) :
          /\ bbImports[i] = cmds[i].Pkg.PkgPath
          /\ bpc # "done" => <<"cmd", cmds[i].Pkg.PkgPath>> \in treeFiles

MainWritten == <<"bb", <<"main.go">>>> \in treeFiles

StageInvariant ==
    /\ compiles \in {0, 1}
    /\ Before("dup") => ~(bpc = "start" /\ finderCalled) /\ cmds = <<>>
    /\ AtOrAfter("dup") => finderCalled /\ Len(cmds) > 0
    /\ Before("rewrite") => bbImports = <<>> /\ treeFiles = {}
    /\ bpc = "rewrite" =>
          /\ Len(bbImports) = idx - 1
          /\ \A i \in 1..Len(bbImports) : bbImports[i] = cmds[i].Pkg.PkgPath
    /\ AtOrAfter("rewrite") => NamesDistinct(cmds) /\ (IsMixed(cmds) => opts.AllowMixedMode)
    /\ Before("seed") => localMods = <<>> /\ goSum = <<>>
    /\ AtOrAfter("seed") => AllRewritten
    /\ Before("bbmain") => goMod = Nil
    /\ AtOrAfter("bbmain") =>
          (goMod # Nil <=> (opts.GO111MODULE = "on" \/ DOMAIN localMods # {}))
    /\ Before("compile") => ~MainWritten /\ compiles = 0
    /\ bpc = "compile" => MainWritten /\ compiles = 0 /\ ~opts.GenerateOnly /\ nerr = Nil
    /\ bpc # "done" => nerr = Nil
    /\ compiles = 1 =>
          /\ bpc = "done"
          /\ ~opts.GenerateOnly
          /\ AllRewritten
          /\ nerr = Nil \/ CompileFailed
    /\ (bpc = "done" /\ nerr = Nil) =>
          /\ AllRewritten
          /\ compiles = IF opts.GenerateOnly THEN 0 ELSE 1

StageStep ==
    /\ bpc # "done"
    /\ \/ StageOf(bpc') > StageOf(bpc)
       \/ bpc' = bpc /\ bpc \in {"rewrite", "seed", "replaced"} /\ idx' = idx + 1
    /\ nerr' # Nil => bpc' = "done"
    /\ compiles' # compiles => bpc = "compile" /\ compiles' = compiles + 1

C14_OrchestrationOrder == []StageInvariant /\ [][StageStep]_bvars

C14_Witness ==
    /\ bpc = "done"
    /\ nerr = Nil
    /\ compiles = 1
    /\ Len(cmds) = 2
    /\ goMod # Nil

(***************************************************************************)
(* C15.  The replace directives copied into the go.mod of bb, as claimed:  *)
(* of the directives of the go.mod files of the local modules whose        *)
(* right-hand side is no local path, the one written first for a left-hand *)
(* side is in the go.mod of bb; no directive of an input go.mod with a     *)
(* local right-hand side is in it; and when two copied directives have the *)
(* same left-hand side and different right-hand sides a warning is logged. *)
(* The left-hand sides looked at are those that are no local module, which *)
(* dealWithDeps itself does not write a replace for.                       *)
(***************************************************************************)
\* The local modules in the order dealWithDeps ranged over them: each adds
\* its require to the end of the file.
WriteOrder == [i \in 1..Len(goMod.Require) |-> goMod.Require[i].Path]

\* The directives dealWithDeps copies from the go.mod of the i-th module.
CopiedFrom(i) ==
    SelectSeq(GoModReplace(localMods[WriteOrder[i]].m.GoMod),
              LAMBDA r : ~IsLocalPath(r.New.Path))

CopiedAt ==
    UNION {{<<i, j>> : j \in 1..Len(CopiedFrom(i))} : i \in 1..Len(WriteOrder)}

WrittenBefore(a, b) == a[1] < b[1] \/ (a[1] = b[1] /\ a[2] < b[2])

InGoMod(d) == \E k \in 1..Len(goMod.Replace) : goMod.Replace[k] = d

ReplaceConflict(a, b) ==
    /\ CopiedFrom(a[1])[a[2]].Old = CopiedFrom(b[1])[b[2]].Old
    /\ CopiedFrom(a[1])[a[2]].New # CopiedFrom(b[1])[b[2]].New

ReplaceWarned == \E i \in 1..Len(log) : log[i].kind = "conflicting replace directives"

C15_AsClaimed ==
    goMod # Nil =>
        /\ \A a \in CopiedAt :
              (/\ CopiedFrom(a[1])[a[2]].Old.Path \notin DOMAIN localMods
               /\ \A b \in CopiedAt :
                     CopiedFrom(b[1])[b[2]].Old = CopiedFrom(a[1])[a[2]].Old
                        => ~WrittenBefore(b, a))
                 => InGoMod(CopiedFrom(a[1])[a[2]])
        /\ \A i \in 1..Len(WriteOrder) :
              \A j \in 1..Len(GoModReplace(localMods[WriteOrder[i]].m.GoMod)) :
                 LET r == GoModReplace(localMods[WriteOrder[i]].m.GoMod)[j]
                 IN  IsLocalPath(r.New.Path) => ~InGoMod(r)
        /\ (\E a, b \in CopiedAt : ReplaceConflict(a, b)) => ReplaceWarned

(***************************************************************************)
(* C16.  The version of the require of a local module, as claimed: the     *)
(* version of the module when it has one, v0.0.0 when it has none, and     *)
(* never v0.0.0 for a module whose path ends in a major version /v2, /v3   *)
(* and so on.                                                              *)
(***************************************************************************)
HasMajorSuffix(mpath) ==
    /\ LastSlash(mpath) > 0
    /\ versionNum(mpath) = Base(mpath)
    /\ Base(mpath) \notin {<<"v", "0">>, <<"v", "1">>}

C16_AsClaimed ==
    goMod # Nil =>
        \A i \in 1..Len(goMod.Require) :
            LET module == localMods[goMod.Require[i].Path].m
            IN  /\ module.Version # "" => goMod.Require[i].Version = module.Version
                /\ (module.Version = "" /\ ~HasMajorSuffix(module.Path))
                      => goMod.Require[i].Version = "v0.0.0"
                /\ HasMajorSuffix(module.Path) => goMod.Require[i].Version # "v0.0.0"

(***************************************************************************)
(* C17.  The packages copied for the commands that have a module, as       *)
(* claimed: once the dependencies are copied, the packages copied are      *)
(* exactly those of the import graphs of the commands whose module is      *)
(* locally replaced or whose path is the path of a local module or lies    *)
(* under it, the path followed by "/"; the commands without a module       *)
(* contribute what collectDeps selects for them.                           *)
(***************************************************************************)
UnderModule(pkgPath, modulePath) ==
    pkgPath = modulePath \/ HasPrefix(pkgPath, modulePath \o <<"/">>)

ClaimedDeps(cmd, lm) ==
    IF cmd.Pkg.Module # Nil
    THEN {cmd.Graph[j].PkgPath : j \in
            {k \in 1..Len(cmd.Graph) :
                \/ IsLocallyReplaced(cmd.Graph[k])
                \/ \E modulePath \in DOMAIN lm :
                      UnderModule(cmd.Graph[k].PkgPath, modulePath)}}
    ELSE {collectDeps(cmd, lm)[j].PkgPath : j \in 1..Len(collectDeps(cmd, lm))}

DepsCopied == {f[2] : f \in {g \in treeFiles : g[1] = "dep"}}

C17_AsClaimed ==
    bpc \in {"gomod", "bbmain", "compile"} =>
        DepsCopied = UNION {ClaimedDeps(cmds[i], localMods) : i \in 1..Len(cmds)}

(***************************************************************************)
(* C18.  The go.sum of bb: once localModules has returned without error,   *)
(* the go.sum of bb is made of the go.sum files of the local modules, the  *)
(* go.sum of each local module that has one exactly once, and nothing for  *)
(* a local module without a go.sum.                                        *)
(***************************************************************************)
SumCount(gomod) == Cardinality({i \in 1..Len(goSum) : goSum[i] = gomod})

C18_GoSumOncePerModule ==
    LocalModulesReturned =>
        /\ \A mpath \in DOMAIN localMods :
              SumCount(localMods[mpath].m.GoMod) =
                 IF HasGoSum(localMods[mpath].m.GoMod) THEN 1 ELSE 0
        /\ \A i \in 1..Len(goSum) :
              \E mpath \in DOMAIN localMods : localMods[mpath].m.GoMod = goSum[i]

\* Two commands of one module that has a go.sum.
C18_Witness ==
    /\ LocalModulesReturned
    /\ Len(cmds) = 2
    /\ cmds[1].Pkg.Module # Nil
    /\ cmds[1].Pkg.Module = cmds[2].Pkg.Module
    /\ HasGoSum(cmds[1].Pkg.Module.GoMod)
    /\ cmds[1].Pkg.Module.Path \in DOMAIN localMods

(***************************************************************************)
(* C19.  The order of the steps of the stub.  As claimed: the symbolic     *)
(* links are resolved first, from the argv[0] the process was started      *)
(* with, when the shebang rewrite has not changed argv yet.                *)
(***************************************************************************)
StartedFromShebang == Len(args0) > 2 /\ HasPrefix(args0[2], <<"#", "!">>)

C19_AsClaimed ==
    [][(pc = "main" /\ pc' = "resolve") => (args = args0 /\ p' = args0[1])]_svars

(***************************************************************************)
(* C19, as the code has it: init() runs before main(), so the shebang      *)
(* rewrite comes first and drops argv[0] and argv[1]; main() then resolves *)
(* the symbolic links of the argv[0] that is left, the third entry of the  *)
(* argv the process was started with, and puts the result in its place;    *)
(* the dispatch on the base name of argv[0] comes last.                    *)
(***************************************************************************)
StubOrder ==
    /\ pc = "start" =>
          /\ pc' = "main"
          /\ args' = IF StartedFromShebang THEN SubSeq(args0, 3, Len(args0)) ELSE args0
    /\ pc = "main" =>
          /\ pc' = "resolve"
          /\ args' = args
          /\ p' = IF StartedFromShebang THEN args0[3] ELSE args0[1]
    /\ pc = "resolve" =>
          /\ pc' \in {"resolve", "run"}
          /\ pc' = "resolve" => args' = args
          /\ pc' = "run" => args' = [args EXCEPT ![1] = p]
    /\ pc = "run" =>
          /\ pc' \in {"run", "ran", "fatal"}
          /\ pc' = "ran" => ranName' = Base(args[1]) /\ args' = args
    /\ pc \notin {"ran", "fatal"}

C19_ShebangFirst == [][StubOrder]_svars

\* Started from a #! file whose path is a symbolic link to a symbolic link:
\* the shebang rewrite has run, then the resolution has changed argv[0].
C19_Witness ==
    /\ pc \in {"run", "ran"}
    /\ StartedFromShebang
    /\ argsInit = SubSeq(args0, 3, Len(args0))
    /\ argsMain # <<>>
    /\ argsMain[1] # args0[3]
    /\ argsMain[1] # args0[1]

(***************************************************************************)
(* C20.  ResolveUntilLastSymlink terminates, as claimed.  The loop has no  *)
(* state but p and does not change the file system, so it ends exactly     *)
(* when it never comes back to a path it has been at: in no state of the   *)
(* loop does some number of further iterations lead back to p.             *)
(***************************************************************************)
NoPath == <<"?">>

\* p after n more iterations of the loop, NoPath when the loop ends before.
RECURSIVE ResolveAfter(_, _)
ResolveAfter(path, n) ==
    IF n = 0 THEN path
    ELSE IF ResolveLoops(path)
    THEN ResolveAfter(AbsSymlink(path, Readlink(path)), n - 1)
    ELSE NoPath

C20_AsClaimed ==
    pc = "resolve" => \A n \in 1..Cardinality(Slots) : ResolveAfter(p, n) # p

(***************************************************************************)
(* C21.  Dispatch terminates.  From the call of run() by main(), every     *)
(* step of the dispatch either ends it, with the entry of a registered     *)
(* command or with the fatal error of the default entry, or is a miss that *)
(* removes exactly the first entry of argv and leaves at least one; while  *)
(* the dispatch has not ended one of these steps can be taken; the fatal   *)
(* error comes only with one entry left; and the number of shifts is at    *)
(* most the length of the argv run() was first called with, less one.      *)
(* The length of argv falls with every miss and is never 0, so the         *)
(* dispatch ends.                                                          *)
(***************************************************************************)
DispatchBounded ==
    pc \in {"run", "ran", "fatal"} =>
        /\ Len(args) >= 1
        /\ shifts + Len(args) = Len(argsMain)
        /\ shifts <= Len(argsMain) - 1
        /\ pc = "run" => ENABLED (RunEntry \/ RunDefaultFatal \/ RunDefaultShift)
        /\ pc = "ran" => ranName \in Registered /\ ranName = Base(args[1])
        /\ pc = "fatal" => Len(args) = 1 /\ ranName = NoName

DispatchStep ==
    pc = "run" =>
        \/ /\ pc' = "ran"
           /\ Base(args[1]) \in Registered
           /\ args' = args /\ shifts' = shifts
        \/ /\ pc' = "fatal"
           /\ Base(args[1]) \notin Registered
           /\ Len(args) = 1
           /\ args' = args /\ shifts' = shifts
        \/ /\ pc' = "run"
           /\ Base(args[1]) \notin Registered
           /\ Len(args) > 1
           /\ args' = Tail(args)
           /\ Len(args') = Len(args) - 1
           /\ shifts' = shifts + 1

C21_DispatchTerminates ==
    /\ []DispatchBounded
    /\ [][DispatchStep]_svars
    /\ [][pc \notin {"ran", "fatal"}]_svars

\* Every name of an argv of three entries or more missed: the default entry
\* has shifted down to one entry and aborted.
C21_Witness ==
    /\ pc = "fatal"
    /\ Len(argsMain) >= 3
    /\ shifts = Len(argsMain) - 1
    /\ Len(args) = 1
====
